---- MODULE Spec2Model ----
(***************************************************************************)
(* Model of the source-map size attribution core of svis-tool:             *)
(* the VLQ decoder (core/src/vlq.rs), the mapping table reconstruction     *)
(* (core/src/parser.rs, SourceMapping::from_raw) and the size attribution  *)
(* loop (src/core/analyzer.rs, calculate_size_by_file).                    *)
(* Around it: the file on disk and print_file_info (SpecFile), file        *)
(* discovery (SpecDiscover), the sequential and the concurrent batch       *)
(* runner with the frames of FileListWidget::render (SpecBatch, and        *)
(* SpecBatchFair for the concurrent runner under fair scheduling),         *)
(* sources_root (SpecRoot) and parse_raw_source_mapping (SpecTrailer).     *)
(*                                                                         *)
(* Representation of machine integers.  Every 32-bit quantity (i32 or u32) *)
(* is stored as the integer in -2^31 .. 2^31-1 that has the same 32-bit    *)
(* pattern: an i32 is its own value, a u32 value n >= 2^31 is stored as    *)
(* n - 2^32 (u32::MAX is stored as -1).  Rust's `as i32` / `as u32` casts  *)
(* between the two keep the bit pattern, so they keep the stored integer;  *)
(* what differs between the types is the order (LtU32), the subtraction    *)
(* check (CheckedSubU32) and the overflow conditions (AddI32, AddU32).     *)
(* Text is a sequence of one-character strings.                            *)
(***************************************************************************)
EXTENDS Integers, Sequences, FiniteSets, TLC

VARIABLES
    overflow_checks, \* build profile: TRUE = arithmetic overflow panics (debug), FALSE = wraps
    base64_str,      \* vlq_decode: the segment passed in
    vlq_out,         \* vlq_decode: what the call produced, None before the call
    raw_mappings,    \* RawSourceMapping.mappings, the encoded table
    sources_len,     \* RawSourceMapping.sources.len()
    file_lines,      \* calculate_size_by_file: byte length of each line of file_contents
    pc,              \* position in the pipeline of one file
    source_mapping,  \* what SourceMapping::from_raw produced, None before the call
    loop_index,      \* calculate_size_by_file: the loop's index, the number of mappings processed
    prev_mapping,    \* calculate_size_by_file: the loop's prev_mapping
    sum_bytes,       \* calculate_size_by_file: running total
    info_by_file,    \* calculate_size_by_file: per-source entries
    result,          \* what calculate_size_by_file produced, None before it ends
    file_contents,   \* the generated file on disk: its lines, line terminator and last line
    source_file_len, \* SourceMapping.source_file_len
    source_map_len,  \* SourceMapping.source_map_len
    rest,            \* print_file_info: the remaining size, None before it is computed
    map_json,        \* the JSON object of the source map: its keys and their values
    parsed_map,      \* the SourceMapping parse_file_by_path makes of map_json, None before
    root_path,       \* what sources_root() produced, None before the call
    trailer,         \* the last line of the generated file, as text
    map_files,       \* the files next to the generated file: path to contents
    path,            \* the path given to discover_files / analyze_path
    at_path,         \* what the disk holds at path
    on_disk,         \* the generated file at each path: contents, mappings and sources of its map
    num_threads,     \* the number of workers of the thread pool (the CPUs of the machine)
    files_to_check,  \* what discover_files produced, None before the call
    mode,            \* the batch runner: "sequential" (core::analyze_path) or "concurrent"
                     \* (FileListState::analyze_path), "none" without a batch
    batch_pc,        \* position of analyze_path, or of the thread FileListState::analyze_path spawns
    calls,           \* sequential: the invocations of on_file_result so far
    returned,        \* sequential: what analyze_path returned, None before
    tasks,           \* concurrent: the tasks handed to the pool, in order: position and file_info
    channel,         \* concurrent: what has been sent on the mpsc channel, in order
    count,           \* concurrent: AnalyzePendingState.count
    op_state,        \* concurrent: AnalyzePendingState.state
    error,           \* concurrent: AnalyzePendingState.error
    file_infos,      \* concurrent: AnalyzePendingState.file_infos
    analyze_state,   \* FileListState.analyze_state
    render_pc,       \* position of FileListWidget::render within a frame
    files_checked    \* render: the count it loaded

vlq_vars == <<base64_str, vlq_out>>
input_vars == <<overflow_checks, raw_mappings, sources_len, file_lines>>
calc_vars == <<loop_index, prev_mapping, sum_bytes, info_by_file, result>>
root_vars == <<map_json, parsed_map, root_path, trailer, map_files>>
file_vars == <<file_contents, source_file_len, source_map_len, rest, root_vars>>
\* everything outside the pipeline of one file
\* the pipeline of one file
one_file_vars == <<input_vars, vlq_vars, pc, source_mapping, calc_vars, file_vars>>
disk_vars == <<path, at_path, on_disk, num_threads>>
seq_vars == <<calls, returned>>
shared_vars == <<count, op_state, error, file_infos>>
conc_vars == <<tasks, channel, shared_vars>>
ui_vars == <<analyze_state, render_pc, files_checked>>
batch_vars == <<disk_vars, files_to_check, mode, batch_pc, seq_vars, conc_vars, ui_vars>>
\* everything outside the pipeline of one file
outer_vars == <<file_vars, batch_vars>>
vars == <<overflow_checks, base64_str, vlq_out, raw_mappings, sources_len, file_lines,
          pc, source_mapping, loop_index, prev_mapping, sum_bytes, info_by_file, result,
          file_contents, source_file_len, source_map_len, rest,
          map_json, parsed_map, root_path, trailer, map_files,
          path, at_path, on_disk, files_to_check, mode, batch_pc, calls, returned,
          tasks, channel, count, op_state, error, file_infos,
          analyze_state, render_pc, files_checked>>

None == [tag |-> "None"]
Panic == [tag |-> "Panic"]
Err(kind) == [tag |-> "Err", kind |-> kind]
Ok(val) == [tag |-> "Ok", val |-> val]

----------------------------------------------------------------------------
(* 32-bit arithmetic on bit patterns *)

MinI32 == -2147483647 - 1
MaxI32 == 2147483647

\* v << k on an i32, 0 < k < 32: the low 32-k bits of the pattern move up,
\* bit 31-k becomes the sign bit, the bits above it are lost.
ShlI32(v, k) ==
    LET low == (IF v < 0 THEN v - MinI32 ELSE v) % (2 ^ (32 - k))
        top == 2 ^ (31 - k)
    IN  IF low >= top THEN (low - top) * (2 ^ k) + MinI32 ELSE low * (2 ^ k)

\* a + b on i32: [overflow, wrapped value]
AddI32(a, b) ==
    IF a > 0 /\ b > 0 /\ a > MaxI32 - b
        THEN [overflow |-> TRUE, val |-> (a + MinI32) + (b + MinI32)]
    ELSE IF a < 0 /\ b < 0 /\ a < MinI32 - b
        THEN [overflow |-> TRUE, val |-> (a - MinI32) + (b - MinI32)]
    ELSE [overflow |-> FALSE, val |-> a + b]

\* -v on an i32: only i32::MIN overflows, and wraps to itself.
NegI32(v) ==
    IF v = MinI32 THEN [overflow |-> TRUE, val |-> MinI32]
    ELSE [overflow |-> FALSE, val |-> 0 - v]

\* a < b for u32 values given by their patterns
LtU32(a, b) ==
    \/ a >= 0 /\ b >= 0 /\ a < b
    \/ a >= 0 /\ b < 0
    \/ a < 0 /\ b < 0 /\ a < b

\* a + b on u32: [overflow, wrapped value]
AddU32(a, b) ==
    LET wrapped == AddI32(a, b).val
    IN  [overflow |-> LtU32(wrapped, a), val |-> wrapped]

\* a.saturating_sub(b) in place of the checked subtraction
CheckedSubU32_Saturating(a, b) ==
    IF LtU32(a, b) THEN [none |-> FALSE, val |-> 0]
    ELSE [none |-> FALSE, val |-> AddI32(a, NegI32(b).val).val]

\* a.checked_sub(b) on u32: [none, val], none for Option::None
CheckedSubU32(a, b) ==
    IF LtU32(a, b) THEN [none |-> TRUE, val |-> 0]
    ELSE [none |-> FALSE, val |-> AddI32(a, NegI32(b).val).val]

----------------------------------------------------------------------------
(* core/src/vlq.rs *)

ALPHABET ==
    << "A","B","C","D","E","F","G","H","I","J","K","L","M","N","O","P",
       "Q","R","S","T","U","V","W","X","Y","Z","a","b","c","d","e","f",
       "g","h","i","j","k","l","m","n","o","p","q","r","s","t","u","v",
       "w","x","y","z","0","1","2","3","4","5","6","7","8","9","+","/" >>

\* ALPHABET.find(byte): the 0-based position, or -1 for Option::None
AlphabetFind(c) ==
    IF \E i \in 1..Len(ALPHABET) : ALPHABET[i] = c
        THEN (CHOOSE i \in 1..Len(ALPHABET) : ALPHABET[i] = c) - 1
        ELSE -1

\* the base64_decoded block: every character through ALPHABET.find(..).unwrap()
Base64Decoded(str) == [i \in 1..Len(str) |-> AlphabetFind(str[i])]

\* raw_value & 0b100000
ContinuationBit(raw_value) == (raw_value \div 32) % 2

\* The grouping loop over base64_decoded, from position i with the loop's
\* locals vlqs and vlq_sequence_ended (current_vlq is Len(vlqs) when a group
\* is open and Len(vlqs) + 1 when it is closed, counted from 1).
RECURSIVE GroupLoop(_, _, _, _)
GroupLoop(decoded, i, vlqs, vlq_sequence_ended) ==
    IF i > Len(decoded) THEN [vlqs |-> vlqs, vlq_sequence_ended |-> vlq_sequence_ended]
    ELSE
        LET raw_value == decoded[i]
            opened == IF vlq_sequence_ended THEN Append(vlqs, <<>>) ELSE vlqs
            current_vlq == Len(opened)
            pushed == [opened EXCEPT ![current_vlq] = Append(@, raw_value)]
        IN  GroupLoop(decoded, i + 1, pushed, ContinuationBit(raw_value) = 0)

\* The inner loop of the value computation: the digits of one group in
\* reverse order, index counted from 1 here (the code's index 0 is 1).
RECURSIVE GroupValueLoop(_, _, _)
GroupValueLoop(vlq, index, value) ==
    IF index = 0 THEN value
    ELSE
        LET vlq_value == vlq[index]
        IN  IF index = 1
                THEN GroupValueLoop(vlq, index - 1, ShlI32(value, 4) + ((vlq_value \div 2) % 16))
                ELSE GroupValueLoop(vlq, index - 1, ShlI32(value, 5) + (vlq_value % 32))

\* the sign read from the last digit of the group instead of the first
GroupNegative_LastDigit(vlq) == vlq[Len(vlq)] % 2 = 1

\* negative = (vlq_value & 1) == 1 for the digit at the code's index 0
GroupNegative(vlq) == vlq[1] % 2 = 1

\* every digit after the first one shifted by one bit more: by 5, 10, ..
GroupResult_ShiftFive(vlq) ==
    LET code == GroupValueLoop(vlq, Len(vlq), 0)
        low == (vlq[1] \div 2) % 16
        high == AddI32(code, 0 - low).val
        value == AddI32(AddI32(high, high).val, low).val
    IN  IF GroupNegative(vlq) THEN NegI32(value) ELSE [overflow |-> FALSE, val |-> value]

\* result[index] = if negative { -value } else { value }: [overflow, val]
GroupResult(vlq) ==
    LET value == GroupValueLoop(vlq, Len(vlq), 0)
    IN  IF GroupNegative(vlq) THEN NegI32(value) ELSE [overflow |-> FALSE, val |-> value]

vlq_decode(str, checks) ==
    IF Len(str) = 0 THEN Ok(<<0, 0, 0, 0>>)
    ELSE
        LET decoded == Base64Decoded(str)
        IN  IF \E i \in 1..Len(decoded) : decoded[i] = -1 THEN Panic
            ELSE
                LET g == GroupLoop(decoded, 1, <<>>, TRUE)
                    vlqs == g.vlqs
                IN  IF ~g.vlq_sequence_ended THEN Err("unterminated")
                    ELSE IF Len(vlqs) # 4 /\ Len(vlqs) # 5 THEN Err("field count")
                    ELSE
                        LET r == [index \in 1..4 |-> GroupResult(vlqs[index])]
                        IN  IF checks /\ \E index \in 1..4 : r[index].overflow THEN Panic
                            ELSE Ok([index \in 1..4 |-> r[index].val])

----------------------------------------------------------------------------
(* core/src/parser.rs *)

\* str.split(sep): the pieces between the separators, empty pieces included
RECURSIVE Split(_, _)
Split(str, sep) ==
    IF \A i \in 1..Len(str) : str[i] # sep THEN <<str>>
    ELSE
        LET at == CHOOSE i \in 1..Len(str) :
                      str[i] = sep /\ \A j \in 1..(i - 1) : str[j] # sep
        IN  <<SubSeq(str, 1, at - 1)>> \o Split(SubSeq(str, at + 1, Len(str)), sep)

EMPTY_MAPPING ==
    [gen_line |-> 0, gen_column |-> 0, src_file |-> 0, src_line |-> 0, src_column |-> 0]

\* mappings.last().unwrap_or(&EMPTY_MAPPING)
LastOrEmpty(mappings) == IF Len(mappings) = 0 THEN EMPTY_MAPPING ELSE mappings[Len(mappings)]

\* the column taken as is, the previous column of the line dropped
GenColumn_NotAccumulated(delta, line_prev_column) == AddI32(delta, 0)

\* gen_column: raw_mapping[0] + line_prev_column
GenColumn(delta, line_prev_column) == AddI32(delta, line_prev_column)

\* the column base carried over from the last mapping of the table
InitialLinePrevColumn_Carried(mappings) == LastOrEmpty(mappings).gen_column

\* let mut line_prev_column = 0i32, at the start of every non-empty chunk
InitialLinePrevColumn(mappings) == 0

\* the chunks numbered after the empty ones are dropped
GenLine_SkippingEmpty(chunks, k) == Cardinality({j \in 1..(k - 1) : Len(chunks[j]) > 0})

\* gen_line of the k-th piece of split(';').enumerate()
GenLine(chunks, k) == k - 1

\* The loop over the segments of one line chunk, from segment i, with the
\* locals line_prev_column and mappings.  Ends with Ok(mappings) or with the
\* decoder's Err, or with Panic.
RECURSIVE SegmentLoop(_, _, _, _, _, _)
SegmentLoop(terms, i, gen_line, line_prev_column, mappings, checks) ==
    IF i > Len(terms) THEN Ok(mappings)
    ELSE
        LET decoded == vlq_decode(terms[i], checks)
        IN  IF decoded.tag # "Ok" THEN decoded
            ELSE
                LET raw_mapping == decoded.val
                    prev == LastOrEmpty(mappings)
                    gen_column == GenColumn(raw_mapping[1], line_prev_column)
                    src_file == AddI32(raw_mapping[2], prev.src_file)
                    src_line == AddI32(raw_mapping[3], prev.src_line)
                    src_column == AddI32(raw_mapping[4], prev.src_column)
                    mapping == [gen_line |-> gen_line,
                                gen_column |-> gen_column.val,
                                src_file |-> src_file.val,
                                src_line |-> src_line.val,
                                src_column |-> src_column.val]
                IN  IF checks /\ (gen_column.overflow \/ src_file.overflow
                                    \/ src_line.overflow \/ src_column.overflow)
                        THEN Panic
                        ELSE SegmentLoop(terms, i + 1, gen_line, mapping.gen_column,
                                         Append(mappings, mapping), checks)

\* The loop over the line chunks, from chunk k.
RECURSIVE LineLoop(_, _, _, _)
LineLoop(chunks, k, mappings, checks) ==
    IF k > Len(chunks) THEN Ok(mappings)
    ELSE IF Len(chunks[k]) = 0 THEN LineLoop(chunks, k + 1, mappings, checks)
    ELSE
        LET line == SegmentLoop(Split(chunks[k], ","), 1, GenLine(chunks, k),
                                InitialLinePrevColumn(mappings), mappings, checks)
        IN  IF line.tag # "Ok" THEN line
            ELSE LineLoop(chunks, k + 1, line.val, checks)

\* SourceMapping::from_raw, the mappings field of its result
from_raw(mappings_str, checks) == LineLoop(Split(mappings_str, ";"), 1, <<>>, checks)

----------------------------------------------------------------------------
(* src/core/analyzer.rs *)

\* entries numbered from 1
InitialInfoByFile_OneBased(n) == [i \in 1..n |-> [bytes |-> 0, file |-> i]]

\* entries starting at one byte
InitialInfoByFile_OneByte(n) == [i \in 1..n |-> [bytes |-> 1, file |-> i - 1]]

\* info_by_file as collected from sources().enumerate(); entry i + 1 is for
\* source index i
InitialInfoByFile(n) == [i \in 1..n |-> [bytes |-> 0, file |-> i - 1]]

\* a u32 used `as usize` to index a collection of length n is in range
InRange(u, n) == u >= 0 /\ u < n

\* the preamble also counted when the source file changes (the condition
\* left commented out in the loop)
PreambleBytes_OnFileChange(mapping, prev, index) ==
    IF index = 0 \/ mapping.src_file # prev.src_file \/ mapping.gen_line # prev.gen_line
        THEN mapping.gen_column ELSE 0

\* no preamble at all
PreambleBytes_Never(mapping, prev, index) == 0

\* the bytes counted before the span: gen_column for the first mapping and
\* for a mapping on another line than prev_mapping, 0 otherwise
PreambleBytes(mapping, prev, index) ==
    IF index = 0 \/ mapping.gen_line # prev.gen_line THEN mapping.gen_column ELSE 0

\* the line taken one further down (a 1-based gen_line), where there is one
MappingEndColumn_NextLine(mappings, index, lines) ==
    LET mapping == mappings[index + 1]
        line_len == IF mapping.gen_line + 2 <= Len(lines) THEN lines[mapping.gen_line + 2]
                    ELSE lines[mapping.gen_line + 1]
    IN  IF index + 1 < Len(mappings)
            THEN LET next_mapping == mappings[index + 2]
                 IN  IF next_mapping.gen_line # mapping.gen_line THEN line_len
                     ELSE next_mapping.gen_column
            ELSE line_len

\* the mapping_end_column block; index is 0-based, lines holds line.len()
MappingEndColumn(mappings, index, lines) ==
    LET mapping == mappings[index + 1]
        line_len == lines[mapping.gen_line + 1]
    IN  IF index + 1 < Len(mappings)
            THEN LET next_mapping == mappings[index + 2]
                 IN  IF next_mapping.gen_line # mapping.gen_line THEN line_len
                     ELSE next_mapping.gen_column
            ELSE line_len

\* One iteration of the loop of calculate_size_by_file on mappings[index]:
\* Ok with the new sum_bytes and info_by_file, the subtraction Err, or Panic.
LoopBody(mappings, index, prev, lines, infos, sum, checks) ==
    LET mapping == mappings[index + 1]
    IN  IF ~InRange(mapping.src_file, Len(infos)) THEN Panic
        ELSE IF ~InRange(mapping.gen_line, Len(lines)) THEN Panic
        ELSE
            LET preamble == PreambleBytes(mapping, prev, index)
                mapping_end_column == MappingEndColumn(mappings, index, lines)
                span == CheckedSubU32(mapping_end_column, mapping.gen_column)
                bytes == AddU32(preamble, span.val)
                info_bytes == AddU32(infos[mapping.src_file + 1].bytes, bytes.val)
                new_sum == AddU32(sum, bytes.val)
            IN  IF span.none THEN Err("subtraction with overflow")
                ELSE IF checks /\ (bytes.overflow \/ info_bytes.overflow \/ new_sum.overflow)
                    THEN Panic
                ELSE Ok([sum_bytes |-> new_sum.val,
                         info_by_file |->
                             [infos EXCEPT ![mapping.src_file + 1].bytes = info_bytes.val]])

----------------------------------------------------------------------------
(* Inputs of the decoder *)

MaxSegLen == 6

SegChars == {"A", "D", "g", "3"}

RECURSIVE SeqsUpTo(_, _)
SeqsUpTo(S, n) ==
    IF n = 0 THEN {<<>>}
    ELSE LET shorter == SeqsUpTo(S, n - 1)
         IN  shorter \cup {Append(s, c) : s \in {t \in shorter : Len(t) = n - 1}, c \in S}

ShortSegments == SeqsUpTo(SegChars, MaxSegLen)

\* the table of tests::example
TestValues ==
    << <<"A","A","2","C","A">>, <<"M","A","A","K">>, <<"Y","A","A","a">>,
       <<"g","B","A","A","a">>, <<"A","A","A","A">>, <<"E","A","C","3","B">>,
       <<"M","A","A","M">>, <<"A","A","A","A">>, <<"E","A","C","N">>,
       <<"Y","A","A","Y">>, <<"E","A","A","E">>, <<"i","B","A","A","i","B">>,
       <<"a","A","A","c">>, <<"A","A","A","A">>, <<"E","A","C","7","C">>,
       <<"O","A","A","O">> >>

TestExpected ==
    << <<0, 0, 43, 0>>, <<6, 0, 0, 5>>, <<12, 0, 0, 13>>, <<16, 0, 0, 13>>,
       <<0, 0, 0, 0>>, <<2, 0, 1, -27>>, <<6, 0, 0, 6>>, <<0, 0, 0, 0>>,
       <<2, 0, 1, -6>>, <<12, 0, 0, 12>>, <<2, 0, 0, 2>>, <<17, 0, 0, 17>>,
       <<13, 0, 0, 14>>, <<0, 0, 0, 0>>, <<2, 0, 1, -45>>, <<7, 0, 0, 7>> >>

\* groups of seven and eight digits: values that reach bit 31 of the i32
LongGroups ==
    { <<"g","g","g","g","g","g","B">>, <<"g","g","g","g","g","g","D">>,
      <<"g","g","g","g","g","g","E">>, <<"h","g","g","g","g","g","E">>,
      <<"/","/","/","/","/","/","D">>, <<"/","/","/","/","/","/","H">>,
      <<"h","g","g","g","g","g","g","A">>, <<"g","g","g","g","g","g","g","B">> }

LongSegments ==
    UNION { { g \o <<"A","A","A">>, <<"A">> \o g \o <<"C","D">>,
              <<"C","A","D">> \o g, <<"D","A","A">> \o g \o <<"C">>,
              <<"A","A","A","A">> \o g }
            : g \in LongGroups }

\* characters outside the alphabet
BadSegments ==
    { <<"!","A","A","A">>, <<"A","A","=","A">>, <<"A","A","A","A"," ">>,
      <<"A","-">>, <<"g","_">>, <<"?">> }

VlqInputs ==
    ShortSegments \cup {TestValues[i] : i \in 1..Len(TestValues)}
        \cup LongSegments \cup BadSegments

----------------------------------------------------------------------------
(* Specification of the decoder alone *)

\* the pipeline of a file before anything is given to it
\* no file on disk is looked at
RootIdle ==
    /\ map_json = <<>>
    /\ parsed_map = None
    /\ root_path = None
    /\ trailer = <<>>
    /\ map_files = <<>>

FileIdle ==
    /\ file_contents = None
    /\ source_file_len = 0
    /\ source_map_len = 0
    /\ rest = None
    /\ RootIdle

\* AnalyzePendingState::default() and nothing spawned, called or rendered
BatchFresh ==
    /\ files_to_check = None
    /\ calls = <<>>
    /\ returned = None
    /\ tasks = <<>>
    /\ channel = <<>>
    /\ count = 0
    /\ op_state = "Pending"
    /\ error = None
    /\ file_infos = <<>>
    /\ render_pc = "idle"
    /\ files_checked = 0

\* no batch is run
BatchIdle ==
    /\ path = <<>>
    /\ at_path = None
    /\ on_disk = <<>>
    /\ num_threads = 1
    /\ mode = "none"
    /\ batch_pc = "idle"
    /\ analyze_state = None
    /\ BatchFresh

OuterIdle == FileIdle /\ BatchIdle

PipelineIdle ==
    /\ raw_mappings = <<>>
    /\ sources_len = 0
    /\ file_lines = <<>>
    /\ pc = "idle"
    /\ source_mapping = None
    /\ loop_index = 0
    /\ prev_mapping = EMPTY_MAPPING
    /\ sum_bytes = 0
    /\ info_by_file = <<>>
    /\ result = None

InitVlq ==
    /\ overflow_checks \in BOOLEAN
    /\ base64_str \in VlqInputs
    /\ vlq_out = None
    /\ PipelineIdle
    /\ OuterIdle

VlqDecode ==
    /\ pc = "idle"
    /\ vlq_out = None
    /\ vlq_out' = vlq_decode(base64_str, overflow_checks)
    /\ UNCHANGED <<input_vars, base64_str, pc, source_mapping, calc_vars, outer_vars>>

NextVlq == VlqDecode

SpecVlq == InitVlq /\ [][NextVlq]_vars

----------------------------------------------------------------------------
(* The decoder's contract, stated on the text of the segment *)

IsAlphabetText(str) == \A i \in 1..Len(str) : \E k \in 1..64 : ALPHABET[k] = str[i]

\* the 6-bit value of the character at position i of an alphabet text
Digit(str, i) == (CHOOSE k \in 1..64 : ALPHABET[k] = str[i]) - 1

\* positions of the characters whose continuation bit (0x20) is clear
Terminators(str) == {i \in 1..Len(str) : Digit(str, i) < 32}

LastTerminated(str) == Len(str) > 0 /\ Len(str) \in Terminators(str)

\* number of groups: one per terminator, plus the open one at the end if any
GroupCount(str) ==
    Cardinality(Terminators(str)) + (IF LastTerminated(str) THEN 0 ELSE 1)

\* position of the last digit of the n-th terminated group
GroupEnd(str, n) ==
    CHOOSE i \in Terminators(str) : Cardinality({j \in Terminators(str) : j <= i}) = n

GroupStart(str, n) == IF n = 1 THEN 1 ELSE GroupEnd(str, n - 1) + 1

TooBig == 0 - 1

\* sum over i >= 1 of (di & 31) * 2^(5*(i-1)) for the digits at positions
\* from+1 .. to, or TooBig when the sum times 16 does not fit below 2^31
RECURSIVE HighDigits(_, _, _)
HighDigits(str, from, to) ==
    IF to <= from THEN 0
    ELSE
        LET higher == HighDigits(str, from + 1, to)
            d == Digit(str, from + 1) % 32
        IN  IF higher = TooBig \/ higher >= 2 ^ 22 THEN TooBig ELSE d + 32 * higher

\* the magnitude ((d0 >> 1) & 15) + sum (di & 31) * 2^(4 + 5*(i-1)) of the
\* n-th group, or TooBig when it is 2^31 or more
StdMagnitude(str, n) ==
    LET from == GroupStart(str, n)
        high == HighDigits(str, from, GroupEnd(str, n))
    IN  IF high = TooBig \/ high >= 2 ^ 27 THEN TooBig
        ELSE ((Digit(str, from) \div 2) % 16) + 16 * high

StdNegative(str, n) == Digit(str, GroupStart(str, n)) % 2 = 1

FourGroups(str) ==
    /\ Len(str) > 0
    /\ IsAlphabetText(str)
    /\ LastTerminated(str)
    /\ GroupCount(str) = 4

FitsI32(str) == \A n \in 1..4 : StdMagnitude(str, n) # TooBig

StdValues(str) ==
    [n \in 1..4 |-> IF StdNegative(str, n) THEN 0 - StdMagnitude(str, n)
                    ELSE StdMagnitude(str, n)]

TestVectorsHold ==
    \A i \in 1..Len(TestValues) :
        base64_str = TestValues[i] => vlq_out = Ok(TestExpected[i])

\* C1 (as stated): a segment of exactly 4 terminated groups decodes to the
\* standard VLQ value of each group, whatever the length of the groups, and
\* the 16 vectors of the test hold.
C1_Original ==
    vlq_out # None =>
        /\ FourGroups(base64_str) =>
              FitsI32(base64_str) /\ vlq_out = Ok(StdValues(base64_str))
        /\ TestVectorsHold

\* C1 (amended): a segment of exactly 4 terminated groups, each of magnitude
\* below 2^31, decodes to [gen_column, src_file, src_line, src_column] deltas
\* equal to the standard VLQ value of each group, and the 16 vectors of the
\* test hold.
C1_GroupValues ==
    vlq_out # None =>
        /\ FourGroups(base64_str) /\ FitsI32(base64_str) =>
              vlq_out = Ok(StdValues(base64_str))
        /\ TestVectorsHold

C1_Witness ==
    /\ base64_str = <<"E","A","C","3","B">>
    /\ vlq_out = Ok(<<2, 0, 1, -27>>)

\* C2: a non-empty alphabet segment decodes successfully exactly when its
\* last character is a terminator and it has 4 or 5 groups; an open last
\* group gives the unterminated error, any other group count the field
\* count error.
C2_SuccessIffTerminatedAnd4Or5 ==
    vlq_out # None /\ Len(base64_str) > 0 /\ IsAlphabetText(base64_str) =>
        /\ vlq_out.tag = "Ok" <=>
              LastTerminated(base64_str) /\ GroupCount(base64_str) \in {4, 5}
        /\ ~LastTerminated(base64_str) => vlq_out = Err("unterminated")
        /\ LastTerminated(base64_str) /\ GroupCount(base64_str) \notin {4, 5} =>
              vlq_out = Err("field count")

\* C3: a segment with a character outside the alphabet makes the decoder
\* return an error value; the call does not abort.
C3_BadCharacterIsErr ==
    vlq_out # None /\ ~IsAlphabetText(base64_str) => vlq_out.tag = "Err"

\* the segment made of the first four groups of a segment
FirstFourGroups(str) == SubSeq(str, 1, GroupEnd(str, 4))

\* C4: a segment of 5 terminated groups is accepted and decodes to what its
\* first 4 groups alone decode to.
C4_FifthGroupDiscarded ==
    /\ vlq_out # None
    /\ Len(base64_str) > 0
    /\ IsAlphabetText(base64_str)
    /\ LastTerminated(base64_str)
    /\ GroupCount(base64_str) = 5
    => /\ vlq_out.tag = "Ok"
       /\ vlq_out = vlq_decode(FirstFourGroups(base64_str), overflow_checks)

\* number of digits of the n-th terminated group
GroupLen(str, n) == GroupEnd(str, n) - GroupStart(str, n) + 1

\* sum over the digits at position i >= from of the group, position 0 being
\* its first digit, of (di & 31) * 2^(5*i)
RECURSIVE ShiftedByFive(_, _, _)
ShiftedByFive(str, n, from) ==
    IF from >= GroupLen(str, n) THEN 0
    ELSE (Digit(str, GroupStart(str, n) + from) % 32) * (2 ^ (5 * from))
         + ShiftedByFive(str, n, from + 1)

\* the value of a group of at most 6 digits when digit i >= 1 is shifted
\* left by 5*i bits
ValueByFive(str, n) ==
    LET magnitude == ((Digit(str, GroupStart(str, n)) \div 2) % 16) + ShiftedByFive(str, n, 1)
    IN  IF StdNegative(str, n) THEN 0 - magnitude ELSE magnitude

\* the segment is decoded and has an n-th group (the empty segment decodes
\* to four zeros and has none)
Decoded4(n) == vlq_out.tag = "Ok" /\ Len(base64_str) > 0 /\ n \in 1..4

\* C22 (as stated): in every decoded segment, the first digit of a group
\* gives the sign (bit 0) and the 4 low bits of the magnitude (bits 1-4),
\* and the digit at position i >= 1 its low 5 bits shifted left by 5*i.
C22_Original ==
    \A n \in 1..4 :
        Decoded4(n) /\ GroupLen(base64_str, n) <= 6 =>
            vlq_out.val[n] = ValueByFive(base64_str, n)

\* C22 (amended): in every decoded segment, for each of the first four
\* groups whose magnitude is below 2^31, the first digit gives the sign
\* (bit 0) and the 4 low bits of the magnitude (bits 1-4), and the digit at
\* position i >= 1 its low 5 bits shifted left by 5*i - 1 bits.
C22_GroupDecode ==
    \A n \in 1..4 :
        Decoded4(n) /\ StdMagnitude(base64_str, n) # TooBig =>
            vlq_out.val[n] = (IF StdNegative(base64_str, n)
                                  THEN 0 - StdMagnitude(base64_str, n)
                                  ELSE StdMagnitude(base64_str, n))

\* "gBAAa": the second digit of the first group counts 16
C22_Witness ==
    /\ base64_str = <<"g","B","A","A","a">>
    /\ vlq_out = Ok(<<16, 0, 0, 13>>)

----------------------------------------------------------------------------
(* Inputs of the pipeline of one file *)

MaxSegments == 3

\* gen_column +1; gen_column -1; src_file +1, src_line +1, src_column +1
SegPool == { <<"C","A","A","A">>, <<"D","A","A","A">>, <<"A","C","C","C">> }

\* what stands between two segments: the same line, the next line, an empty
\* line in between
Separators == { <<",">>, <<";">>, <<";",";">> }

\* the mappings strings of exactly n segments
RECURSIVE MappingsOf(_)
MappingsOf(n) ==
    IF n = 1 THEN SegPool
    ELSE {m \o sep \o seg : m \in MappingsOf(n - 1), sep \in Separators, seg \in SegPool}

PoolMappings == UNION {MappingsOf(n) : n \in 1..MaxSegments}

\* empty segments, five-group segments, a rejected segment, a character
\* outside the alphabet, columns at the i32 and at the u32 boundary, a
\* src_file delta of -1 ("EDAD": gen_column +2, src_file -1, src_column -1)
ExtraMappings ==
    { <<"E","D","A","D">>,
      <<"A","C","C","C",",","E","D","A","D">>,
      <<"C","A","A","A",",","E","D","A","D",";","A","C","C","C",",","C","A","A","A">> } \cup
    { <<"C","A","A","A",",",",","C","A","A","A">>,
      <<",">>,
      <<";",",","C","A","A","A",";">>,
      <<"C","A","A","A","C",",","C","C","A","A","E",";","A","D","A","A","A">>,
      <<"C","A","A","A",";","C","A","A">>,
      <<"C","A","A","A",";","C","A","A","g">>,
      <<"C","A","A","A",",","!","A","A","A">>,
      <<"+","/","/","/","/","/","D","A","A","A",",","C","A","A","A">>,
      <<"A","+","/","/","/","/","/","D","A","A",",","A","C","A","A">>,
      <<"D","A","A","A",",","g","g","g","g","g","g","E","A","A","A">>,
      <<"+","/","/","/","/","/","D","A","A","A",",",
        "+","/","/","/","/","/","D","A","A","A",",","E","A","A","A">>,
      <<"C","A","A","A",";","D","A","A","A",",">> }

MappingsInputs == PoolMappings \cup ExtraMappings

\* sources.len()
SourcesLenInputs == 0..2

\* line.len() of each line of the generated file
FileLinesInputs == { <<3>>, <<2, 1>>, <<0, 2, 3>> }

----------------------------------------------------------------------------
(* Specification of the pipeline of one file: from_raw, then the loop of
   calculate_size_by_file *)

Init ==
    /\ overflow_checks \in BOOLEAN
    /\ base64_str = <<>>
    /\ vlq_out = None
    /\ raw_mappings \in MappingsInputs
    /\ sources_len \in SourcesLenInputs
    /\ file_lines \in FileLinesInputs
    /\ pc = "parse"
    /\ source_mapping = None
    /\ loop_index = 0
    /\ prev_mapping = EMPTY_MAPPING
    /\ sum_bytes = 0
    /\ info_by_file = <<>>
    /\ result = None
    /\ OuterIdle

\* SourceMapping::from_raw as called by parse_file_by_path; its error is
\* handle_file's error
FromRaw ==
    /\ pc = "parse"
    /\ source_mapping' = from_raw(raw_mappings, overflow_checks)
    /\ IF source_mapping'.tag = "Ok"
           THEN pc' = "analyze" /\ result' = result
           ELSE pc' = "done" /\ result' = source_mapping'
    /\ UNCHANGED <<input_vars, vlq_vars, loop_index, prev_mapping, sum_bytes, info_by_file,
                   outer_vars>>

\* calculate_size_by_file up to the loop
CalcStart ==
    /\ pc = "analyze"
    /\ sum_bytes' = 0
    /\ info_by_file' = InitialInfoByFile(sources_len)
    /\ prev_mapping' = EMPTY_MAPPING
    /\ loop_index' = 0
    /\ pc' = "loop"
    /\ UNCHANGED <<input_vars, vlq_vars, source_mapping, result, outer_vars>>

\* one iteration of the loop
CalcStep ==
    /\ pc = "loop"
    /\ loop_index < Len(source_mapping.val)
    /\ LET body == LoopBody(source_mapping.val, loop_index, prev_mapping, file_lines,
                            info_by_file, sum_bytes, overflow_checks)
       IN  IF body.tag = "Ok"
               THEN /\ sum_bytes' = body.val.sum_bytes
                    /\ info_by_file' = body.val.info_by_file
                    /\ prev_mapping' = source_mapping.val[loop_index + 1]
                    /\ loop_index' = loop_index + 1
                    /\ UNCHANGED <<pc, result>>
               ELSE /\ result' = body
                    /\ pc' = "done"
                    /\ UNCHANGED <<sum_bytes, info_by_file, prev_mapping, loop_index>>
    /\ UNCHANGED <<input_vars, vlq_vars, source_mapping, outer_vars>>

\* the return after the loop
CalcReturn ==
    /\ pc = "loop"
    /\ loop_index = Len(source_mapping.val)
    /\ result' = Ok([sum_bytes |-> sum_bytes, info_by_file |-> info_by_file])
    /\ pc' = "done"
    /\ UNCHANGED <<input_vars, vlq_vars, source_mapping, loop_index, prev_mapping,
                   sum_bytes, info_by_file, outer_vars>>

Next == FromRaw \/ CalcStart \/ CalcStep \/ CalcReturn

Spec == Init /\ [][Next]_vars

----------------------------------------------------------------------------
(* The reconstructed table, stated on the text of the mappings string *)

\* 32-bit sums and differences of the Mapping fields
Plus32(a, b) == AddI32(a, b).val
Minus32(a, b) == AddI32(a, NegI32(b).val).val

IsSeparator(c) == c = ";" \/ c = ","

\* position p starts a chunk / ends a chunk (p may be Len(str) + 1)
AtChunkStart(str, p) == p = 1 \/ str[p - 1] = ";"
AtChunkEnd(str, p) == p = Len(str) + 1 \/ str[p] = ";"

\* start positions of the segments of the non-empty chunks
SegStarts(str) ==
    {p \in 1..(Len(str) + 1) :
        /\ p = 1 \/ IsSeparator(str[p - 1])
        /\ ~(AtChunkStart(str, p) /\ AtChunkEnd(str, p))}

\* the start positions in the order of the text
StartsInOrder(str) ==
    LET starts == SegStarts(str)
    IN  [i \in 1..Cardinality(starts) |->
            CHOOSE p \in starts : Cardinality({q \in starts : q <= p}) = i]

\* the segment that starts at p: up to the next separator
SegText(str, p) ==
    LET stops == {q \in p..(Len(str) + 1) : q = Len(str) + 1 \/ IsSeparator(str[q])}
        stop == CHOOSE q \in stops : \A r \in stops : q <= r
    IN  SubSeq(str, p, stop - 1)

\* number of ';' before position p: the 0-based index of the chunk of p
LineOf(str, p) == Cardinality({q \in 1..(p - 1) : str[q] = ";"})

\* the segment that starts at p is the first of its chunk
FirstOfLine(str, p) == AtChunkStart(str, p)

\* the four deltas of the segment that starts at p
Deltas(str, p) == vlq_decode(SegText(str, p), overflow_checks).val

Decoded == source_mapping.tag = "Ok"

\* from_raw has just returned the table
Parsed == pc = "analyze"

Table == source_mapping.val

PrevOf(i) == IF i = 1 THEN EMPTY_MAPPING ELSE Table[i - 1]

\* C5: the gen_column of the first segment of a line chunk is its own delta
\* (base 0), that of a later segment is the previous gen_column plus its
\* delta; src_file, src_line and src_column are those of the preceding
\* mapping of the whole table (zero before the first) plus the deltas.  The
\* sums are those of the 32-bit fields.
C5_LineReset ==
    Parsed =>
        LET starts == StartsInOrder(raw_mappings)
        IN  \A i \in DOMAIN Table \cap DOMAIN starts :
                LET d == Deltas(raw_mappings, starts[i])
                IN  /\ Table[i].gen_column =
                           IF FirstOfLine(raw_mappings, starts[i]) THEN d[1]
                           ELSE Plus32(Table[i - 1].gen_column, d[1])
                    /\ Table[i].src_file = Plus32(PrevOf(i).src_file, d[2])
                    /\ Table[i].src_line = Plus32(PrevOf(i).src_line, d[3])
                    /\ Table[i].src_column = Plus32(PrevOf(i).src_column, d[4])

\* two lines: the second starts again from column 0 while the source
\* position continues from the first line's last mapping
C5_Witness ==
    /\ raw_mappings = <<"C","A","A","A", ",", "A","C","C","C", ";", "C","A","A","A">>
    /\ Parsed
    /\ Len(Table) = 3
    /\ Table[2] = [gen_line |-> 0, gen_column |-> 1, src_file |-> 1, src_line |-> 1,
                   src_column |-> 1]
    /\ Table[3] = [gen_line |-> 1, gen_column |-> 1, src_file |-> 1, src_line |-> 1,
                   src_column |-> 1]

\* C6: there is one mapping per segment of the non-empty chunks, in the
\* order of the text, and its gen_line is the 0-based index of its chunk,
\* empty chunks counted.
C6_GenLineIsChunkIndex ==
    Parsed =>
        LET starts == StartsInOrder(raw_mappings)
        IN  /\ Len(Table) = Len(starts)
            /\ \A i \in DOMAIN starts :
                   Table[i].gen_line = LineOf(raw_mappings, starts[i])

\* leading, inner and trailing empty chunks around one mapping
C6_Witness ==
    /\ raw_mappings = <<";", ",", "C","A","A","A", ";">>
    /\ Parsed
    /\ Len(Table) = 2
    /\ Table[1].gen_line = 1
    /\ Table[2].gen_line = 1

LeU32(a, b) == ~LtU32(b, a)

\* C7 (as stated): every successfully decoded table is in non-decreasing
\* gen_line order and, within a gen_line, in non-decreasing gen_column order.
C7_Original ==
    Parsed =>
        \A i \in 1..Len(Table) : \A j \in i..Len(Table) :
            /\ Table[i].gen_line <= Table[j].gen_line
            /\ Table[i].gen_line = Table[j].gen_line =>
                   LeU32(Table[i].gen_column, Table[j].gen_column)

\* the i-th segment, which starts at p, adds to its line's column without
\* leaving 0 .. 2^32-1: its gen_column delta is not negative and the sum does
\* not wrap
ColumnAdvances(i, p) ==
    LET d == Deltas(raw_mappings, p)[1]
        base == IF FirstOfLine(raw_mappings, p) THEN 0 ELSE Table[i - 1].gen_column
    IN  d >= 0 /\ ~AddU32(base, d).overflow

\* C7 (amended): every successfully decoded table is in non-decreasing
\* gen_line order; within a gen_line it is in non-decreasing gen_column
\* order provided no segment of that line has a negative gen_column delta
\* and the line's columns stay below 2^32.
C7_Ordering ==
    Parsed =>
        LET starts == StartsInOrder(raw_mappings)
            advances == [k \in DOMAIN Table \cap DOMAIN starts |->
                            ColumnAdvances(k, starts[k])]
        IN  \A i \in 1..Len(Table) : \A j \in i..Len(Table) :
                /\ Table[i].gen_line <= Table[j].gen_line
                /\ (/\ Table[i].gen_line = Table[j].gen_line
                    /\ \A k \in DOMAIN advances :
                           Table[k].gen_line = Table[i].gen_line => advances[k])
                   => LeU32(Table[i].gen_column, Table[j].gen_column)

\* two lines whose columns advance
C7_Witness ==
    /\ raw_mappings = <<"C","A","A","A", ",", "C","A","A","A", ";", "C","A","A","A">>
    /\ Parsed
    /\ Len(Table) = 3
    /\ Table[2].gen_column = 2
    /\ Table[3].gen_column = 1

----------------------------------------------------------------------------
(* The attribution loop *)

\* the loop has just processed the mapping at loop_index
Attributed == pc = "loop" /\ loop_index' = loop_index + 1

\* the bytes the mapping at 0-based position i is to receive
ClaimedPreamble(i) ==
    IF i = 0 \/ Table[i + 1].gen_line # Table[i].gen_line
        THEN Table[i + 1].gen_column ELSE 0

SameLineNext(i) == i + 2 <= Len(Table) /\ Table[i + 2].gen_line = Table[i + 1].gen_line

ClaimedEndColumn(i) ==
    IF SameLineNext(i) THEN Table[i + 2].gen_column
    ELSE file_lines[Table[i + 1].gen_line + 1]

ClaimedAmount(i) ==
    Plus32(ClaimedPreamble(i), Minus32(ClaimedEndColumn(i), Table[i + 1].gen_column))

Finished == pc = "done" /\ Decoded

\* the computed end column of the mapping at 0-based position i is smaller
\* than its gen_column
Underflows(i) ==
    /\ SameLineNext(i) \/ InRange(Table[i + 1].gen_line, Len(file_lines))
    /\ LtU32(ClaimedEndColumn(i), Table[i + 1].gen_column)

SomeUnderflow == \E i \in 0..(Len(Table) - 1) : Underflows(i)

FirstUnderflow ==
    CHOOSE i \in 0..(Len(Table) - 1) :
        Underflows(i) /\ \A j \in 0..(i - 1) : ~Underflows(j)

\* C9 (as stated): if the end column of any mapping is smaller than its
\* gen_column, the call returns the subtraction error.
C9_Original ==
    Finished /\ SomeUnderflow => result = Err("subtraction with overflow")

\* every mapping up to position i names an existing source and an existing
\* generated line
IndicesInRange(i) ==
    \A j \in 0..i :
        /\ InRange(Table[j + 1].src_file, sources_len)
        /\ InRange(Table[j + 1].gen_line, Len(file_lines))

\* no mapping up to position i has a gen_column of 2^31 or more
ColumnsBelow2_31(i) == \A j \in 0..i : Table[j + 1].gen_column >= 0

\* C9 (amended): if the end column of any mapping is smaller than its
\* gen_column, no SourceMappingInfo is returned; the call returns the
\* subtraction error unless it aborts before, on a mapping whose src_file
\* or gen_line index is out of range or, in a build with overflow checks,
\* on the overflow of a running total (which takes a gen_column of 2^31 or
\* more).
C9_UnderflowIsError ==
    Finished /\ SomeUnderflow =>
        /\ result.tag \in {"Err", "Panic"}
        /\ result.tag = "Err" => result = Err("subtraction with overflow")
        /\ (/\ IndicesInRange(FirstUnderflow)
            /\ ~overflow_checks \/ ColumnsBelow2_31(FirstUnderflow))
           => result = Err("subtraction with overflow")

\* the second mapping of the line lies before the first
C9_Witness ==
    /\ raw_mappings = <<"C","A","A","A", ",", "D","A","A","A">>
    /\ sources_len = 1
    /\ Finished
    /\ Underflows(0)
    /\ result = Err("subtraction with overflow")

Returned == pc = "done" /\ result.tag = "Ok"

\* C10: a returned SourceMappingInfo has one entry per source, in index
\* order, and an entry no mapping refers to has 0 bytes.
C10_OneEntryPerSource ==
    Returned =>
        /\ Len(result.val.info_by_file) = sources_len
        /\ \A i \in 0..(sources_len - 1) :
               /\ result.val.info_by_file[i + 1].file = i
               /\ (\A k \in 1..Len(Table) : Table[k].src_file # i)
                      => result.val.info_by_file[i + 1].bytes = 0

\* two sources, every mapping in the first one
C10_Witness ==
    /\ Returned
    /\ sources_len = 2
    /\ Len(Table) = 2
    /\ result.val.info_by_file = <<[bytes |-> 3, file |-> 0], [bytes |-> 0, file |-> 1]>>

\* the 0-based lines that carry a mapping, and the positions of the mappings
\* of line l
MappedLines == {Table[k].gen_line : k \in 1..Len(Table)}

MappingsOn(l) == {i \in 0..(Len(Table) - 1) : Table[i + 1].gen_line = l}

\* u32 sums: of the lengths of a set of lines, of the amounts attributed to
\* a set of mappings
RECURSIVE SumLens(_)
SumLens(ls) ==
    IF ls = {} THEN 0
    ELSE LET l == CHOOSE x \in ls : TRUE
         IN  Plus32(file_lines[l + 1], SumLens(ls \ {l}))

RECURSIVE SumAmounts(_)
SumAmounts(is) ==
    IF is = {} THEN 0
    ELSE LET i == CHOOSE x \in is : TRUE
         IN  Plus32(ClaimedAmount(i), SumAmounts(is \ {i}))

RECURSIVE SumBytes(_, _)
SumBytes(infos, n) ==
    IF n = 0 THEN 0 ELSE Plus32(SumBytes(infos, n - 1), infos[n].bytes)

\* C29: in every returned SourceMappingInfo, and after each mapping the
\* loop has processed, sum_bytes is the sum of the bytes of the entries of
\* info_by_file.
C29_SumOfEntries ==
    /\ pc = "loop" => sum_bytes = SumBytes(info_by_file, Len(info_by_file))
    /\ Returned =>
           result.val.sum_bytes = SumBytes(result.val.info_by_file,
                                           Len(result.val.info_by_file))

\* both sources have bytes: 1 and 2 of the 3
C29_Witness ==
    /\ Returned
    /\ Len(Table) = 2
    /\ result.val.sum_bytes = 3
    /\ result.val.info_by_file = <<[bytes |-> 1, file |-> 0], [bytes |-> 2, file |-> 1]>>

\* after the first of two mappings the loop holds 1 byte, in the first entry
C29_InLoop ==
    /\ pc = "loop"
    /\ loop_index = 1
    /\ Len(Table) = 2
    /\ sum_bytes = 1
    /\ info_by_file = <<[bytes |-> 1, file |-> 0], [bytes |-> 0, file |-> 1]>>

----------------------------------------------------------------------------
(* handle_file on a file of the disk (core/src/lib.rs, parse_file_by_path
   of core/src/parser.rs) and the remaining size print_file_info derives
   (ui/src/terminal.rs).

   file_contents describes the generated file: lines holds the byte length
   of each line as contents.lines() yields them, eol_len the length of the
   line terminator ("\n" or "\r\n"), final_eol whether the last line is
   terminated, last_line what the last line is: "directive" (it starts with
   "//# sourceMappingURL=" and leads to a source map that loads: the
   RawSourceMapping of raw_mappings and sources_len), "bad_map" (it starts
   with the prefix but the map cannot be loaded or parsed) or "other" (it
   does not start with the prefix). *)

FileOf(lines, eol_len, final_eol, last_line) ==
    [lines |-> lines, eol_len |-> eol_len, final_eol |-> final_eol, last_line |-> last_line]

RECURSIVE SumOf(_)
SumOf(lens) == IF Len(lens) = 0 THEN 0 ELSE Head(lens) + SumOf(Tail(lens))

\* std::fs::metadata(path).len(): the bytes of the lines and of their
\* terminators
FileMetaLen(contents) ==
    IF Len(contents.lines) = 0 THEN 0
    ELSE SumOf(contents.lines)
         + contents.eol_len * (Len(contents.lines) - 1 + (IF contents.final_eol THEN 1 ELSE 0))

\* last_line.len()
LastLineLen(contents) == contents.lines[Len(contents.lines)]

\* parse_file_by_path up to from_raw's return: the error of the first step
\* that fails, or the table
parse_file_by_path(contents, mappings_str, checks) ==
    IF Len(contents.lines) = 0 THEN Err("empty file")
    ELSE IF contents.last_line = "other" THEN Err("unsupported format")
    ELSE IF contents.last_line = "bad_map" THEN Err("source map")
    ELSE from_raw(mappings_str, checks)

\* a - b on u64; both are below 2^31 in this model
SubU64(a, b, checks) ==
    IF b <= a THEN Ok(a - b)
    ELSE IF checks THEN Panic
    ELSE [tag |-> "Wrapped"]

\* SourceMapping::is_empty
is_empty(n_sources, mappings) == n_sources = 0 /\ Len(mappings) = 0

\* the directive line left in: the whole file's length minus sum_bytes
RestOf_WithDirective(file_len, map_len, sum, checks) ==
    IF sum < 0 THEN (IF checks THEN Panic ELSE [tag |-> "Wrapped"])
    ELSE SubU64(file_len, sum, checks)

\* print_file_info's `rest`: source_file_len - sum_bytes, where
\* source_file_len is the file's length without the directive line and
\* sum_bytes is `info.sum_bytes as u64`.  A sum_bytes of 2^31 or more (stored
\* negative) is above every file length of this model.
RestOf(file_len, map_len, sum, checks) ==
    LET actual == SubU64(file_len, map_len, checks)
    IN  IF actual.tag # "Ok" THEN actual
        ELSE IF sum < 0 THEN (IF checks THEN Panic ELSE [tag |-> "Wrapped"])
        ELSE SubU64(actual.val, sum, checks)

\* the directive line of the end-to-end scenario
DirectiveLen == 42

\* byte lengths of the lines before the directive line
CodeLines == { <<>>, <<3>>, <<2, 1>>, <<0, 2, 3>>, <<957>>, <<958>>, <<600, 356>> }

FileInputs ==
    { FileOf(Append(code, DirectiveLen), eol_len, final_eol, "directive") :
          code \in CodeLines, eol_len \in {1, 2}, final_eol \in BOOLEAN }
    \cup
    { FileOf(<<957, 41>>, 1, TRUE, "directive"),
      FileOf(<<>>, 1, FALSE, "other"),
      FileOf(<<3>>, 1, FALSE, "other"),
      FileOf(<<3, 42, 0>>, 1, TRUE, "other"),
      FileOf(<<3, 42>>, 1, FALSE, "bad_map") }

\* up to two segments of the pool; no mapping; columns 0 and 600 of one
\* line for two sources; one mapping per line on two and three lines, the
\* last of them the directive line of a file of one or two lines of code;
\* columns 2 and 3
FileMappings ==
    MappingsOf(1) \cup MappingsOf(2) \cup
    { <<>>,
      <<"A","A","A","A",",","w","l","B","C","A","A">>,
      <<"A","A","A","A",";","A","A","A","A">>,
      <<"A","A","A","A",";","A","A","A","A",";","A","A","A","A">>,
      <<"A","A","A","A",";",";","A","A","A","A">>,
      <<"E","A","A","A",";","C","C","A","A">>,
      <<"G","A","A","A">>,
      <<"A","A","A","A",";","A","C","A","A">> }

InitFile ==
    /\ overflow_checks \in BOOLEAN
    /\ base64_str = <<>>
    /\ vlq_out = None
    /\ raw_mappings \in FileMappings
    /\ sources_len \in SourcesLenInputs
    /\ file_lines = <<>>
    /\ pc = "file"
    /\ source_mapping = None
    /\ loop_index = 0
    /\ prev_mapping = EMPTY_MAPPING
    /\ sum_bytes = 0
    /\ info_by_file = <<>>
    /\ result = None
    /\ file_contents \in FileInputs
    /\ source_file_len = 0
    /\ source_map_len = 0
    /\ rest = None
    /\ RootIdle
    /\ BatchIdle

\* parse_file_by_path as called by handle_file; its error is handle_file's
\* error.  file_lines is what calculate_size_by_file collects from the
\* contents it is handed.
ParseFileByPath ==
    /\ pc = "file"
    /\ source_mapping' = parse_file_by_path(file_contents, raw_mappings, overflow_checks)
    /\ IF source_mapping'.tag = "Ok"
           THEN /\ source_file_len' = FileMetaLen(file_contents)
                /\ source_map_len' = LastLineLen(file_contents)
                /\ file_lines' = file_contents.lines
                /\ pc' = "analyze"
                /\ result' = result
           ELSE /\ result' = source_mapping'
                /\ pc' = "done"
                /\ UNCHANGED <<source_file_len, source_map_len, file_lines>>
    /\ UNCHANGED <<overflow_checks, raw_mappings, sources_len, vlq_vars, loop_index,
                   prev_mapping, sum_bytes, info_by_file, file_contents, rest, root_vars,
                   batch_vars>>

\* print_file_info on the SourceMappingInfo handle_file returned: nothing is
\* derived for an empty source map
PrintFileInfo ==
    /\ pc = "done"
    /\ result.tag = "Ok"
    /\ rest' = IF is_empty(sources_len, source_mapping.val) THEN None
               ELSE RestOf(source_file_len, source_map_len, result.val.sum_bytes,
                           overflow_checks)
    /\ pc' = "printed"
    /\ UNCHANGED <<input_vars, vlq_vars, source_mapping, calc_vars, file_contents,
                   source_file_len, source_map_len, root_vars, batch_vars>>

NextFile == ParseFileByPath \/ CalcStart \/ CalcStep \/ CalcReturn \/ PrintFileInfo

SpecFile == InitFile /\ [][NextFile]_vars

----------------------------------------------------------------------------
(* Conservation of the attributed bytes *)

\* print_file_info has run on the result handle_file returned
Printed == pc = "printed"

\* no two mappings of the table are on the same generated line
OneMappingPerLine ==
    \A i, j \in DOMAIN Table : i # j => Table[i].gen_line # Table[j].gen_line

\* no mapping is on the last line of the file, the directive line
NoneOnDirectiveLine ==
    \A i \in DOMAIN Table : Table[i].gen_line # Len(file_lines) - 1

\* source_file_len - source_map_len
ActualLen == source_file_len - source_map_len

\* C11: for a file with at most one mapping per line, all of them on the
\* lines before the directive line, that handle_file analyses successfully,
\* sum_bytes does not exceed source_file_len - source_map_len, the
\* remainder source_file_len - source_map_len - sum_bytes is computed
\* without underflow and sum_bytes + remainder is source_file_len -
\* source_map_len.
C11_Conservation ==
    Printed /\ OneMappingPerLine /\ NoneOnDirectiveLine =>
        /\ result.val.sum_bytes >= 0
        /\ result.val.sum_bytes <= ActualLen
        /\ rest # None =>
               /\ rest.tag = "Ok"
               /\ rest.val >= 0
               /\ result.val.sum_bytes + rest.val = ActualLen

\* two lines of code of 2 and 1 bytes, each with one mapping: 3 of the 5
\* bytes before the directive line are attributed, 2 remain
C11_Witness ==
    /\ Printed
    /\ raw_mappings = <<"E","A","A","A", ";", "C","C","A","A">>
    /\ file_contents = FileOf(<<2, 1, 42>>, 1, FALSE, "directive")
    /\ OneMappingPerLine /\ NoneOnDirectiveLine
    /\ result.val.sum_bytes = 3
    /\ ActualLen = 5
    /\ rest = Ok(2)

----------------------------------------------------------------------------
(* The end-to-end scenario *)

\* handle_file has returned
Handled == pc \in {"done", "printed"}

\* bundle.js: 1000 bytes, the last line is the directive of 42 bytes; two
\* sources
ScenarioFile ==
    /\ file_contents.last_line = "directive"
    /\ FileMetaLen(file_contents) = 1000
    /\ LastLineLen(file_contents) = 42
    /\ sources_len = 2

\* two mappings on the first line: column 0 for a.js, column 600 for b.js
ScenarioMappings ==
    raw_mappings = <<"A","A","A","A", ",", "w","l","B","C","A","A">>

ScenarioTable ==
    /\ Len(Table) = 2
    /\ Table[1] = [gen_line |-> 0, gen_column |-> 0, src_file |-> 0, src_line |-> 0,
                   src_column |-> 0]
    /\ Table[2] = [gen_line |-> 0, gen_column |-> 600, src_file |-> 1, src_line |-> 0,
                   src_column |-> 0]

\* C12 (as stated): for the file of 1000 bytes whose last 42 bytes are the
\* directive, with two sources and the two mappings, handle_file returns
\* sum_bytes 958, 600 bytes for a.js and 358 for b.js, and the derived
\* remainder is 0.
C12_Original ==
    Handled /\ ScenarioFile /\ ScenarioMappings =>
        /\ result.tag = "Ok"
        /\ result.val.sum_bytes = 958
        /\ result.val.info_by_file[1].bytes = 600
        /\ result.val.info_by_file[2].bytes = 358
        /\ Printed => rest = Ok(0)

\* the 1000 bytes are one line of code of 957 bytes, its "\n" and the
\* directive line
ScenarioLayout ==
    /\ file_contents.lines = <<957, 42>>
    /\ file_contents.eol_len = 1
    /\ ~file_contents.final_eol

\* C12 (amended): when the 1000 bytes are one line of code of 957 bytes,
\* its line terminator and the directive line of 42 bytes, and the two
\* mappings are at columns 0 (a.js) and 600 (b.js) of that line, handle_file
\* returns sum_bytes 957, 600 bytes for a.js and 357 for b.js, and the
\* derived remainder is 1, the line terminator.
C12_EndToEnd ==
    Handled /\ ScenarioFile /\ ScenarioLayout /\ ScenarioMappings =>
        /\ result.tag = "Ok"
        /\ ScenarioTable
        /\ result.val.sum_bytes = 957
        /\ result.val.info_by_file =
               <<[bytes |-> 600, file |-> 0], [bytes |-> 357, file |-> 1]>>
        /\ Printed => rest = Ok(1)

C12_Witness ==
    /\ Printed
    /\ ScenarioFile /\ ScenarioLayout /\ ScenarioMappings
    /\ source_file_len = 1000
    /\ source_map_len = 42
    /\ result.val.sum_bytes = 957
    /\ rest = Ok(1)

----------------------------------------------------------------------------
(* discover_files (core/src/lib.rs).

   The path names something of the disk, root: kind "missing" (metadata
   fails), "file", "dir" or "unreadable" (a directory read_dir fails on);
   entries is what read_dir yields, in the order it yields it, as file
   names. *)

\* the characters of the paths, in the order of their bytes
ByteOrder ==
    << "-", ".", "/", "0", "1", "2", "3", "4", "5", "6", "7", "8", "9",
       "A", "B", "C", "D", "E", "F", "G", "H", "I", "J", "K", "L", "M",
       "N", "O", "P", "Q", "R", "S", "T", "U", "V", "W", "X", "Y", "Z",
       "_", "a", "b", "c", "d", "e", "f", "g", "h", "i", "j", "k", "l",
       "m", "n", "o", "p", "q", "r", "s", "t", "u", "v", "w", "x", "y",
       "z" >>

ByteOf(c) == CHOOSE i \in DOMAIN ByteOrder : ByteOrder[i] = c

\* a < b for String: bytewise, a proper prefix first
RECURSIVE LtString(_, _)
LtString(a, b) ==
    IF Len(b) = 0 THEN FALSE
    ELSE IF Len(a) = 0 THEN TRUE
    ELSE IF Head(a) # Head(b) THEN ByteOf(Head(a)) < ByteOf(Head(b))
    ELSE LtString(Tail(a), Tail(b))

\* sorted with x put behind the elements that are not greater
RECURSIVE Insert(_, _)
Insert(x, sorted) ==
    IF Len(sorted) = 0 THEN <<x>>
    ELSE IF LtString(x, Head(sorted)) THEN <<x>> \o sorted
    ELSE <<Head(sorted)>> \o Insert(x, Tail(sorted))

\* the text in the order found
Sort_NotSorted(strings) == strings

\* Vec<String>::sort
RECURSIVE Sort(_)
Sort(strings) ==
    IF Len(strings) = 0 THEN <<>>
    ELSE Insert(strings[Len(strings)], Sort(SubSeq(strings, 1, Len(strings) - 1)))

\* Path::extension of a file name: None for a name without '.', for ".."
\* and for a name whose only '.' is its first character; otherwise what
\* follows the last '.'
Extension(name) ==
    LET dots == {i \in DOMAIN name : name[i] = "."}
        last == CHOOSE i \in dots : \A j \in dots : j <= i
    IN  IF dots = {} \/ name = <<".", ".">> THEN None
        ELSE IF last = 1 THEN None
        ELSE Ok(SubSeq(name, last + 1, Len(name)))

\* DirEntry::path: the directory's path joined with the file name
EntryPath(dir, name) ==
    IF Len(dir) > 0 /\ dir[Len(dir)] = "/" THEN dir \o name
    ELSE dir \o <<"/">> \o name

\* if let "js" = path.extension().unwrap().to_str().unwrap()
IsJs(name) == Extension(name) = Ok(<<"j", "s">>)

\* the paths pushed by the loop over the entries, in the order yielded
RECURSIVE Pushed(_, _)
Pushed(dir, entries) ==
    IF Len(entries) = 0 THEN <<>>
    ELSE (IF IsJs(Head(entries)) THEN <<EntryPath(dir, Head(entries))>> ELSE <<>>)
         \o Pushed(dir, Tail(entries))

discover_files(start, root) ==
    IF root.kind = "missing" THEN Err("io")
    ELSE IF root.kind = "unreadable" THEN Err("io")
    ELSE IF root.kind = "dir" THEN
        IF \E i \in DOMAIN root.entries : Extension(root.entries[i]) = None
            THEN Panic
            ELSE Ok(Sort(Pushed(start, root.entries)))
    ELSE Ok(<<start>>)

\* the pipeline of one file is not run
OneFileIdle ==
    /\ overflow_checks = FALSE
    /\ base64_str = <<>>
    /\ vlq_out = None
    /\ PipelineIdle
    /\ FileIdle

MaxEntries == 3

\* file names: four with the extension js, one with the extension map, two
\* without an extension (a file or a sub-directory; a dot file), one with an
\* empty extension
NamePool ==
    { <<"a",".","j","s">>,
      <<"b",".","j","s">>,
      <<"z",".","j","s">>,
      <<"B",".","j","s">>,
      <<"m",".","j","s",".","m","a","p">>,
      <<"L","I","C","E","N","S","E">>,
      <<".","j","s">>,
      <<"a",".">> }

Range(seq) == {seq[i] : i \in DOMAIN seq}

\* the sequences without repetition of at most n names
RECURSIVE Listings(_)
Listings(n) ==
    IF n = 0 THEN {<<>>}
    ELSE LET shorter == Listings(n - 1)
         IN  shorter \cup
             UNION {{Append(l, name) : name \in NamePool \ Range(l)} :
                        l \in {k \in shorter : Len(k) = n - 1}}

DirOf(entries) == [kind |-> "dir", entries |-> entries]
FileAtPath == [kind |-> "file", entries |-> <<>>]
Missing == [kind |-> "missing", entries |-> <<>>]
Unreadable == [kind |-> "unreadable", entries |-> <<>>]

\* a directory, with and without a trailing '/'
DirPaths == { <<"d","i","r">>, <<"d","/">> }

\* a file, with the extension js, with another one, without one
FilePaths == { <<"a",".","j","s">>, <<"n","o","t","e","s",".","t","x","t">>, <<"L","I","C","E","N","S","E">> }

\* the directory of the discovery test
ExampleEntries == << <<"z",".","j","s">>, <<"a",".","j","s">>, <<"m",".","j","s",".","m","a","p">>, <<"b",".","j","s">> >>

\* path and what is there
DiscoverInputs ==
    {<<p, DirOf(l)>> : p \in DirPaths, l \in Listings(MaxEntries)}
    \cup {<<p, Unreadable>> : p \in DirPaths}
    \cup {<<p, FileAtPath>> : p \in FilePaths}
    \cup {<<p, Missing>> : p \in DirPaths \cup FilePaths}
    \cup {<<<<"d","i","r">>, DirOf(ExampleEntries)>>}

\* a call of discover_files alone
InitDiscover ==
    /\ OneFileIdle
    /\ \E input \in DiscoverInputs : path = input[1] /\ at_path = input[2]
    /\ on_disk = <<>>
    /\ num_threads = 1
    /\ mode = "none"
    /\ batch_pc = "discover"
    /\ analyze_state = None
    /\ BatchFresh

DiscoverFiles ==
    /\ mode = "none"
    /\ batch_pc = "discover"
    /\ files_to_check' = discover_files(path, at_path)
    /\ batch_pc' = "returned"
    /\ UNCHANGED <<one_file_vars, disk_vars, mode, seq_vars, conc_vars, ui_vars>>

NextDiscover == DiscoverFiles

SpecDiscover == InitDiscover /\ [][NextDiscover]_vars

----------------------------------------------------------------------------
(* The contract of discover_files, stated on the names of the entries *)

DiscoverReturned == mode = "none" /\ batch_pc = "returned"

\* the name is some text, not empty, followed by ".js"
EndsInDotJs(name) ==
    /\ Len(name) > 3
    /\ SubSeq(name, Len(name) - 2, Len(name)) = <<".", "j", "s">>

\* the name has a '.' that is not its first character
HasExtension(name) == \E i \in 2..Len(name) : name[i] = "."

\* the path of an entry of the directory at path
PathOf(name) ==
    IF path[Len(path)] = "/" THEN path \o name ELSE path \o <<"/">> \o name

C14_NoExtensionIsErr ==
    (/\ DiscoverReturned
     /\ at_path.kind = "dir"
     /\ \E e \in Range(at_path.entries) : ~HasExtension(e))
    => files_to_check.tag = "Err"

----------------------------------------------------------------------------
(* handle_file as a function of the file on disk *)

\* the loop of calculate_size_by_file from index on, and the return after it
RECURSIVE CalcLoop(_, _, _, _, _, _, _)
CalcLoop(mappings, index, prev, lines, infos, sum, checks) ==
    IF index = Len(mappings)
        THEN Ok([sum_bytes |-> sum, info_by_file |-> infos])
        ELSE LET body == LoopBody(mappings, index, prev, lines, infos, sum, checks)
             IN  IF body.tag = "Ok"
                     THEN CalcLoop(mappings, index + 1, mappings[index + 1], lines,
                                   body.val.info_by_file, body.val.sum_bytes, checks)
                     ELSE body

calculate_size_by_file(mappings, lines, n_sources, checks) ==
    CalcLoop(mappings, 0, EMPTY_MAPPING, lines, InitialInfoByFile(n_sources), 0,
             checks)

\* handle_file on a generated file: parse_file_by_path, then
\* calculate_size_by_file on its contents; the first error or panic ends it
handle_file(generated, checks) ==
    LET parsed == parse_file_by_path(generated.contents, generated.mappings, checks)
    IN  IF parsed.tag = "Ok"
            THEN calculate_size_by_file(parsed.val, generated.contents.lines,
                                        generated.n_sources, checks)
            ELSE parsed

----------------------------------------------------------------------------
(* The two batch runners: core::analyze_path as called by run_simple, and
   FileListState::analyze_path with the frames of FileListWidget::render *)

\* file_name of a SourceMapping and of a SourceMappingErrorInfo: what follows
\* the last '/'
FileName(file) ==
    LET slashes == {i \in DOMAIN file : file[i] = "/"}
    IN  IF slashes = {} THEN file
        ELSE SubSeq(file, (CHOOSE i \in slashes : \A j \in slashes : j <= i) + 1, Len(file))

\* the FileInfoType a task sends for its file
FileInfoOf(file, res) ==
    [type |-> IF res.tag = "Ok" THEN "Info" ELSE "Err", file |-> file, res |-> res]

\* Vec::sort_by with sort_by_name, ascending: stable
RECURSIVE InsertByName(_, _)
InsertByName(info, sorted) ==
    IF Len(sorted) = 0 THEN <<info>>
    ELSE IF LtString(FileName(info.file), FileName(Head(sorted).file))
        THEN <<info>> \o sorted
        ELSE <<Head(sorted)>> \o InsertByName(info, Tail(sorted))

\* the list left in completion order
SortByName_Unsorted(infos) == infos

RECURSIVE SortByName(_)
SortByName(infos) ==
    IF Len(infos) = 0 THEN <<>>
    ELSE InsertByName(infos[Len(infos)], SortByName(SubSeq(infos, 1, Len(infos) - 1)))

\* the u16 counter
U16 == 65536

\* the closure of the spawned thread still owns its clones of the Arcs
ThreadHoldsArcs == batch_pc \notin {"exited", "dead"}

\* a collector that waits for a message of every task
SendersDropped_AllSent == \A i \in DOMAIN tasks : tasks[i].pc = "finished"

\* every clone of the sender made for a task is dropped
SendersDropped == \A i \in DOMAIN tasks : tasks[i].pc \in {"finished", "dead"}

----------------------------------------------------------------------------
(* Inputs of the batch runners *)

\* a file with a valid map of one source, one with a map that is not JSON,
\* one without a directive, one whose mappings hold a character outside
\* the alphabet
ValidFile ==
    [contents |-> FileOf(<<3, DirectiveLen>>, 1, FALSE, "directive"),
     mappings |-> <<"A","A","A","A">>, n_sources |-> 1]

CorruptFile ==
    [contents |-> FileOf(<<3, DirectiveLen>>, 1, FALSE, "bad_map"),
     mappings |-> <<>>, n_sources |-> 0]

PlainFile ==
    [contents |-> FileOf(<<3>>, 1, FALSE, "other"), mappings |-> <<>>, n_sources |-> 0]

BadCharFile ==
    [contents |-> FileOf(<<3, DirectiveLen>>, 1, FALSE, "directive"),
     mappings |-> <<"!","A","A","A">>, n_sources |-> 1]

GeneratedFiles == {ValidFile, CorruptFile, PlainFile, BadCharFile}

\* directories of no, one, two and three js files, with other entries
BatchListings ==
    { <<>>,
      << <<"z",".","j","s">> >>,
      << <<"z",".","j","s">>, <<"m",".","j","s",".","m","a","p">>, <<"a",".","j","s">> >>,
      << <<"b",".","j","s">>, <<"z",".","j","s">>, <<"a",".","j","s">> >>,
      << <<"a",".","j","s">>, <<"L","I","C","E","N","S","E">> >> }

BatchRoots ==
    {<<<<"d","i","r">>, DirOf(l)>> : l \in BatchListings}
    \cup {<<<<"d","i","r">>, Missing>>, <<<<"d","i","r">>, Unreadable>>, <<<<"a",".","j","s">>, FileAtPath>>}

\* the paths discover_files can return for a root
PathsUnder(start, root) ==
    IF root.kind = "dir" THEN Range(Pushed(start, root.entries))
    ELSE IF root.kind = "file" THEN {start}
    ELSE {}

\* ThreadPoolBuilder::new().build(): one worker per CPU, at least one
PoolSizes == {1, 2, 3}

InitBatch ==
    /\ OneFileIdle
    /\ \E input \in BatchRoots :
           /\ path = input[1]
           /\ at_path = input[2]
           /\ on_disk \in [PathsUnder(input[1], input[2]) -> GeneratedFiles]
    /\ mode \in {"sequential", "concurrent"}
    /\ num_threads \in (IF mode = "concurrent" THEN PoolSizes ELSE {1})
    /\ batch_pc = "discover"
    /\ analyze_state = IF mode = "concurrent" THEN [tag |-> "Pending"] ELSE None
    /\ BatchFresh

----------------------------------------------------------------------------
(* core::analyze_path *)

\* discover_files(path)?
SeqDiscover ==
    /\ mode = "sequential"
    /\ batch_pc = "discover"
    /\ files_to_check' = discover_files(path, at_path)
    /\ IF files_to_check'.tag = "Ok"
           THEN batch_pc' = "iterate" /\ returned' = returned
           ELSE batch_pc' = "returned" /\ returned' = files_to_check'
    /\ UNCHANGED <<one_file_vars, disk_vars, mode, calls, conc_vars, ui_vars>>

\* one iteration: on_file_result(file, handle_file(file)); a panic of
\* handle_file unwinds analyze_path
SeqCall ==
    /\ mode = "sequential"
    /\ batch_pc = "iterate"
    /\ Len(calls) < Len(files_to_check.val)
    /\ result' = handle_file(on_disk[files_to_check.val[Len(calls) + 1]], overflow_checks)
    /\ IF result'.tag = "Panic"
           THEN /\ returned' = Panic
                /\ batch_pc' = "returned"
                /\ calls' = calls
           ELSE /\ calls' = Append(calls, [file |-> files_to_check.val[Len(calls) + 1],
                                           res |-> result'])
                /\ UNCHANGED <<returned, batch_pc>>
    /\ UNCHANGED <<input_vars, vlq_vars, pc, source_mapping, loop_index, prev_mapping,
                   sum_bytes, info_by_file, file_vars, disk_vars, files_to_check, mode,
                   conc_vars, ui_vars>>

\* Ok(()) after the loop
SeqReturn ==
    /\ mode = "sequential"
    /\ batch_pc = "iterate"
    /\ Len(calls) = Len(files_to_check.val)
    /\ returned' = Ok("unit")
    /\ batch_pc' = "returned"
    /\ UNCHANGED <<one_file_vars, disk_vars, files_to_check, mode, calls, conc_vars, ui_vars>>

----------------------------------------------------------------------------
(* The thread spawned by FileListState::analyze_path *)

\* discover_files(&path); on Err the error is put in the mutex; a panic
\* unwinds the thread, which drops what its closure owns
ThreadDiscover ==
    /\ mode = "concurrent"
    /\ batch_pc = "discover"
    /\ files_to_check' = discover_files(path, at_path)
    /\ IF files_to_check'.tag = "Ok"
           THEN batch_pc' = "dispatch" /\ error' = error
           ELSE IF files_to_check'.tag = "Err"
               THEN batch_pc' = "store_err" /\ error' = files_to_check'
               ELSE batch_pc' = "dead" /\ error' = error
    /\ UNCHANGED <<one_file_vars, disk_vars, mode, seq_vars, tasks, channel, count, op_state,
                   file_infos, ui_vars>>

\* state_atomic.store(OperationState::Err)
StoreErr ==
    /\ mode = "concurrent"
    /\ batch_pc = "store_err"
    /\ op_state' = "Err"
    /\ batch_pc' = "exit"
    /\ UNCHANGED <<one_file_vars, disk_vars, files_to_check, mode, seq_vars, tasks, channel,
                   count, error, file_infos, ui_vars>>

\* thread_pool.execute for the next file
Dispatch ==
    /\ mode = "concurrent"
    /\ batch_pc = "dispatch"
    /\ Len(tasks) < Len(files_to_check.val)
    /\ tasks' = Append(tasks, [file |-> files_to_check.val[Len(tasks) + 1],
                               pc |-> "queued", res |-> None])
    /\ UNCHANGED <<one_file_vars, disk_vars, files_to_check, mode, batch_pc, seq_vars,
                   channel, shared_vars, ui_vars>>

\* drop(sender) after the loop
DropSender ==
    /\ mode = "concurrent"
    /\ batch_pc = "dispatch"
    /\ Len(tasks) = Len(files_to_check.val)
    /\ batch_pc' = "collect"
    /\ UNCHANGED <<one_file_vars, disk_vars, files_to_check, mode, seq_vars, conc_vars,
                   ui_vars>>

\* the tasks a worker of the pool is running
Running == {i \in DOMAIN tasks : tasks[i].pc \in {"handled", "sent"}}

WorkerFree == Cardinality(Running) < num_threads

\* a free worker of the pool takes a task and calls handle_file; a panic
\* unwinds the task, which drops its sender without sending
TaskHandle(i) ==
    /\ mode = "concurrent"
    /\ tasks[i].pc = "queued"
    /\ WorkerFree
    /\ tasks' = [tasks EXCEPT ![i].res = handle_file(on_disk[tasks[i].file], overflow_checks),
                              ![i].pc = "handled"]
    /\ UNCHANGED <<one_file_vars, disk_vars, files_to_check, mode, batch_pc, seq_vars,
                   channel, shared_vars, ui_vars>>

\* sender.send(file_info).unwrap()
TaskSend(i) ==
    /\ mode = "concurrent"
    /\ tasks[i].pc = "handled"
    /\ IF tasks[i].res.tag = "Panic"
           THEN /\ tasks' = [tasks EXCEPT ![i].pc = "dead"]
                /\ channel' = channel
           ELSE /\ tasks' = [tasks EXCEPT ![i].pc = "sent"]
                /\ channel' = Append(channel, FileInfoOf(tasks[i].file, tasks[i].res))
    /\ UNCHANGED <<one_file_vars, disk_vars, files_to_check, mode, batch_pc, seq_vars,
                   shared_vars, ui_vars>>

\* files_checked_atomic.fetch_add(1), then the task ends and its sender is
\* dropped
TaskCount(i) ==
    /\ mode = "concurrent"
    /\ tasks[i].pc = "sent"
    /\ count' = (count + 1) % U16
    /\ tasks' = [tasks EXCEPT ![i].pc = "finished"]
    /\ UNCHANGED <<one_file_vars, disk_vars, files_to_check, mode, batch_pc, seq_vars,
                   channel, op_state, error, file_infos, ui_vars>>

\* *file_infos.lock().unwrap() = receiver.iter().collect(): the iteration
\* ends when the channel is empty and every sender is dropped
Collect ==
    /\ mode = "concurrent"
    /\ batch_pc = "collect"
    /\ SendersDropped
    /\ file_infos' = channel
    /\ batch_pc' = "store"
    /\ UNCHANGED <<one_file_vars, disk_vars, files_to_check, mode, seq_vars, tasks, channel,
                   count, op_state, error, ui_vars>>

\* state_atomic.store(OperationState::Done)
StoreDone ==
    /\ mode = "concurrent"
    /\ batch_pc = "store"
    /\ op_state' = "Done"
    /\ batch_pc' = "exit"
    /\ UNCHANGED <<one_file_vars, disk_vars, files_to_check, mode, seq_vars, tasks, channel,
                   count, error, file_infos, ui_vars>>

\* the closure returns: its clones of the Arcs are dropped
ThreadExit ==
    /\ mode = "concurrent"
    /\ batch_pc = "exit"
    /\ batch_pc' = "exited"
    /\ UNCHANGED <<one_file_vars, disk_vars, files_to_check, mode, seq_vars, conc_vars,
                   ui_vars>>

----------------------------------------------------------------------------
(* A frame of FileListWidget::render while the state is Pending *)

\* pending_state.count.load()
RenderLoad ==
    /\ mode = "concurrent"
    /\ analyze_state.tag = "Pending"
    /\ render_pc = "idle"
    /\ files_checked' = count
    /\ render_pc' = "loaded"
    /\ UNCHANGED <<one_file_vars, disk_vars, files_to_check, mode, batch_pc, seq_vars,
                   conc_vars, analyze_state>>

\* match pending_state.get_state(): Arc::try_unwrap(..).unwrap() panics
\* while another clone of the Arc is alive
RenderMatch ==
    /\ mode = "concurrent"
    /\ render_pc = "loaded"
    /\ render_pc' = "idle"
    /\ analyze_state' =
           IF op_state = "Pending" THEN analyze_state
           ELSE IF ThreadHoldsArcs THEN Panic
           ELSE IF op_state = "Done"
               THEN [tag |-> "Done", files_checked |-> files_checked,
                     file_infos |-> SortByName(file_infos)]
               ELSE [tag |-> "Err", error |-> error]
    /\ UNCHANGED <<one_file_vars, disk_vars, files_to_check, mode, batch_pc, seq_vars,
                   conc_vars, files_checked>>

NextBatch ==
    \/ SeqDiscover
    \/ SeqCall
    \/ SeqReturn
    \/ ThreadDiscover
    \/ StoreErr
    \/ Dispatch
    \/ DropSender
    \/ \E i \in DOMAIN tasks : TaskHandle(i)
    \/ \E i \in DOMAIN tasks : TaskSend(i)
    \/ \E i \in DOMAIN tasks : TaskCount(i)
    \/ Collect
    \/ StoreDone
    \/ ThreadExit
    \/ RenderLoad
    \/ RenderMatch

SpecBatch == InitBatch /\ [][NextBatch]_vars

\* discover_files and handle_file produce a value or a panic for every
\* input, so the steps that call them can be taken as soon as their
\* conditions hold: the thread is at discover_files, a task is queued and a
\* worker is free
CanDiscover == mode = "concurrent" /\ batch_pc = "discover"

CanHandle(i) ==
    /\ mode = "concurrent"
    /\ i \in DOMAIN tasks
    /\ tasks[i].pc = "queued"
    /\ WorkerFree

\* the steps of the spawned thread after discover_files, of the task of the
\* i-th file after handle_file, and of the render loop
ThreadStep ==
    \/ StoreErr
    \/ Dispatch
    \/ DropSender
    \/ Collect
    \/ StoreDone
    \/ ThreadExit

TaskStep(i) ==
    /\ i \in DOMAIN tasks
    /\ (TaskSend(i) \/ TaskCount(i))

RenderStep == RenderLoad \/ RenderMatch

\* FileListState::analyze_path has set the state to Pending
InitPending == InitBatch /\ mode = "concurrent"

NextPending ==
    \/ ThreadDiscover
    \/ ThreadStep
    \/ \E i \in 1..MaxEntries : i \in DOMAIN tasks /\ TaskHandle(i)
    \/ \E i \in 1..MaxEntries : TaskStep(i)
    \/ RenderStep

\* the scheduler lets the spawned thread and every task of the pool run, and
\* the event loop keeps drawing frames. Weak fairness of the two steps that
\* call discover_files and handle_file is written with their conditions
\* CanDiscover and CanHandle.
SpecBatchFair ==
    /\ InitPending
    /\ [][NextPending]_vars
    /\ ([]<>(~CanDiscover) \/ []<><<ThreadDiscover>>_vars)
    /\ WF_vars(ThreadStep)
    /\ \A i \in 1..MaxEntries :
           /\ ([]<>(~CanHandle(i)) \/ []<><<i \in DOMAIN tasks /\ TaskHandle(i)>>_vars)
           /\ WF_vars(TaskStep(i))
    /\ WF_vars(RenderStep)

----------------------------------------------------------------------------
(* The contracts of the batch runners *)

Discovered == files_to_check.tag = "Ok"

\* what handle_file gives for the n-th discovered file
HandledAt(n) == handle_file(on_disk[files_to_check.val[n]], overflow_checks)

\* C15: when discovery succeeds, analyze_path has, at its return, invoked
\* the callback once per discovered file, in discovery order, with the
\* file's path and handle_file's result for it, and returns Ok; before its
\* return the invocations are those for the first files of the list.
C15_SequentialBatch ==
    mode = "sequential" /\ Discovered =>
        /\ Len(calls) <= Len(files_to_check.val)
        /\ \A n \in DOMAIN calls :
               /\ calls[n].file = files_to_check.val[n]
               /\ calls[n].res = HandledAt(n)
        /\ batch_pc = "returned" =>
               /\ returned = Ok("unit")
               /\ Len(calls) = Len(files_to_check.val)

DiscoveryFails == at_path.kind \in {"missing", "unreadable"}

\* C16: when the root path is missing or unreadable, the sequential
\* analyze_path returns Err and never invokes the callback; the concurrent
\* runner dispatches no task, produces no entry, stores the error and the
\* state Err, and once render has left Pending the UI state is
\* AnalyzeState::Err with that error.
C16_DiscoveryFailure ==
    DiscoveryFails =>
        /\ mode = "sequential" =>
               /\ calls = <<>>
               /\ batch_pc = "returned" => returned = Err("io")
        /\ mode = "concurrent" =>
               /\ tasks = <<>> /\ channel = <<>> /\ file_infos = <<>>
               /\ op_state \in {"Pending", "Err"}
               /\ op_state = "Err" => error = Err("io")
               /\ analyze_state.tag # "Pending" =>
                      analyze_state = [tag |-> "Err", error |-> Err("io")]

\* the entries of a collection for the file at a path
EntriesFor(infos, file) == {i \in DOMAIN infos : infos[i].file = file}

\* one entry per discovered file: Info with handle_file's result when it is
\* Ok, Err with the file's path otherwise
OneEntryPerFile(infos) ==
    /\ Len(infos) = Len(files_to_check.val)
    /\ \A n \in DOMAIN files_to_check.val :
           \E i \in DOMAIN infos :
               /\ EntriesFor(infos, files_to_check.val[n]) = {i}
               /\ infos[i].type = (IF HandledAt(n).tag = "Ok" THEN "Info" ELSE "Err")
               /\ infos[i].res = HandledAt(n)

\* C17: in concurrent mode, once the state Done is stored the result
\* collection holds exactly one entry per discovered file, and so does
\* the collection the UI state Done carries; one corrupt and two valid
\* files give one Err entry and two Info entries.
C17_BatchIsolation ==
    mode = "concurrent" =>
        /\ op_state = "Done" => OneEntryPerFile(file_infos)
        /\ analyze_state.tag = "Done" => OneEntryPerFile(analyze_state.file_infos)

\* C18: the counter never exceeds the number of results sent, which never
\* exceeds the number of discovered files; at Done it is the number of
\* discovered files; every step leaves it alone or adds exactly one, in the
\* step that completes a task after its send.
C18_CounterBounds ==
    mode = "concurrent" =>
        /\ count <= Len(channel)
        /\ Discovered => Len(channel) <= Len(files_to_check.val)
        /\ op_state = "Done" => Discovered /\ count = Len(files_to_check.val)

C18_CounterStep ==
    \/ count' = count
    \/ /\ count' = count + 1
       /\ \E i \in DOMAIN tasks : tasks[i].pc = "sent" /\ tasks'[i].pc = "finished"

C18_ProgressCounter == [](C18_CounterBounds) /\ [][C18_CounterStep]_vars

UiDone == mode = "concurrent" /\ analyze_state.tag = "Done"

\* position of a file in the discovered list
DiscoveredAt(file) == CHOOSE n \in DOMAIN files_to_check.val : files_to_check.val[n] = file

\* C23: the list of the UI state Done is in ascending order of file name,
\* Info and Err entries alike; it is the discovered list restricted to the
\* files that have an entry, whatever the order in which the results were
\* sent.
C23_DoneListSorted ==
    UiDone =>
        LET list == analyze_state.file_infos
        IN  /\ \A i, j \in DOMAIN list :
                   i < j => LtString(FileName(list[i].file), FileName(list[j].file))
            /\ \A i, j \in DOMAIN list :
                   i < j => DiscoveredAt(list[i].file) < DiscoveredAt(list[j].file)
            /\ {list[i] : i \in DOMAIN list} = {file_infos[i] : i \in DOMAIN file_infos}

\* three results sent in another order than that of the names, an Err
\* entry among them
C23_Witness ==
    /\ UiDone
    /\ Len(file_infos) = 3
    /\ file_infos[1].file = <<"d","i","r","/","z",".","j","s">>
    /\ file_infos[2].file = <<"d","i","r","/","a",".","j","s">>
    /\ file_infos[2].type = "Err"
    /\ analyze_state.file_infos[1].file = <<"d","i","r","/","a",".","j","s">>
    /\ analyze_state.file_infos[2].file = <<"d","i","r","/","b",".","j","s">>
    /\ analyze_state.file_infos[3].file = <<"d","i","r","/","z",".","j","s">>

\* a step of the spawned thread or of a task of its pool can be taken
CanStep ==
    \/ CanDiscover
    \/ \E i \in DOMAIN tasks : CanHandle(i)
    \/ ENABLED (\/ StoreErr
                \/ Dispatch
                \/ DropSender
                \/ \E i \in DOMAIN tasks : TaskSend(i)
                \/ \E i \in DOMAIN tasks : TaskCount(i)
                \/ Collect
                \/ StoreDone
                \/ ThreadExit)

WorkRemains ==
    /\ mode = "concurrent"
    /\ \/ batch_pc \notin {"exited", "dead"}
       \/ \E i \in DOMAIN tasks : tasks[i].pc \notin {"finished", "dead"}

\* C24: the concurrent batch is free of deadlock for every number of files
\* and every pool size: while work remains the thread or a task can take a
\* step, a task a worker runs never waits, and the collector's receive ends
\* once every task has finished and dropped its sender.
C24_DeadlockFree ==
    /\ WorkRemains => CanStep
    /\ \A i \in DOMAIN tasks :
           /\ tasks[i].pc = "handled" => ENABLED TaskSend(i)
           /\ tasks[i].pc = "sent" => ENABLED TaskCount(i)
    /\ (mode = "concurrent" /\ batch_pc = "collect" /\ SendersDropped) => ENABLED Collect

\* one worker, the collector is waiting, a task died, one has sent and one
\* is still queued
C24_Witness ==
    /\ mode = "concurrent"
    /\ num_threads = 1
    /\ batch_pc = "collect"
    /\ Len(tasks) = 3
    /\ \E i, j, k \in DOMAIN tasks :
           /\ tasks[i].pc = "dead"
           /\ tasks[j].pc = "sent"
           /\ tasks[k].pc = "queued"

\* C25: under fair scheduling of the thread, the tasks and the render loop,
\* the UI state of a started analysis eventually leaves Pending and becomes
\* Done or Err, for every path, directory content and per-file outcome.
C25_LeavesPending ==
    (mode = "concurrent" /\ analyze_state.tag = "Pending")
        ~> (analyze_state.tag \in {"Done", "Err"})

\* C26: whenever render reads the state Done or Err from a Pending state,
\* the spawned thread has released its handles, so taking ownership of the
\* results or of the error succeeds in every interleaving.
C26_ExclusiveHandOff ==
    [][(RenderMatch /\ op_state # "Pending") =>
           (~ThreadHoldsArcs /\ analyze_state'.tag \in {"Done", "Err"})]_vars

\* C27: the files_checked of the Done state equals the number of entries of
\* its file_infos, in every interleaving of render's two reads with the
\* tasks and the collector.
C27_CountMatchesList ==
    UiDone => analyze_state.files_checked = Len(analyze_state.file_infos)

----------------------------------------------------------------------------
(* sources_root *)

\* bytes of the UTF-8 encoding of a character; "U+00E9" stands for the one
\* character e with acute accent
Utf8Len(c) == IF c = "U+00E9" THEN 2 ELSE 1

\* str.len(): one byte per character and one more for each character of
\* two bytes
ByteLen(str) == Len(str) + Cardinality({i \in DOMAIN str : Utf8Len(str[i]) = 2})

\* str.get(0..k): None when k is not at a character boundary
GetPrefix(str, k) ==
    LET cuts == {i \in 0..Len(str) : ByteLen(SubSeq(str, 1, i)) = k}
    IN  IF cuts = {} THEN None ELSE Ok(SubSeq(str, 1, CHOOSE i \in cuts : TRUE))

\* serde's derived Deserialize for RawSourceMapping: each field is read
\* from the key of its own name; a missing Option is None, a missing
\* String or Vec an error; other keys are ignored
Deserialize(object) ==
    IF ~({"file", "sources", "names", "mappings"} \subseteq DOMAIN object)
        THEN Err("source map")
        ELSE Ok([file |-> object["file"],
                 source_root |-> IF "source_root" \in DOMAIN object
                                     THEN Ok(object["source_root"]) ELSE None,
                 sources |-> object["sources"]])

\* the fields of the SourceMapping that sources_root reads:
\* raw_source_mapping.file = path, then from_raw copies them
ParsedMapOf(start, object) ==
    LET raw == Deserialize(object)
    IN  IF raw.tag = "Ok" THEN Ok([raw.val EXCEPT !.file = start]) ELSE raw

\* chars().position(|c| c != '.' && c != '/'), counted from 0
FirstNameChar(str) ==
    LET at == {i \in DOMAIN str : str[i] # "." /\ str[i] # "/"}
    IN  IF at = {} THEN None ELSE Ok((CHOOSE i \in at : \A j \in at : i <= j) - 1)

PREFIX_LENGTH == 3

\* the loop over relative_to.chars().rev().enumerate(): the index at which
\* it returns, the first one where skipped_parts, the number of '/' among
\* the characters seen so far, is relative_jumps + 1; None when it ends
SkipParts(relative_to, relative_jumps) ==
    LET seen(index) == {k \in 0..index : relative_to[Len(relative_to) - k] = "/"}
        hits == {index \in 0..(Len(relative_to) - 1) :
                     Cardinality(seen(index)) = relative_jumps + 1}
    IN  IF hits = {} THEN None
        ELSE Ok(CHOOSE index \in hits : \A other \in hits : index <= other)

resolve_relative_path(relative_path, relative_to) ==
    LET position == FirstNameChar(relative_path)
    IN  IF position = None THEN Panic
        ELSE LET at == SkipParts(relative_to, position.val \div PREFIX_LENGTH)
             IN  IF at = None THEN Panic
                 ELSE LET prefix == GetPrefix(relative_to, ByteLen(relative_to) - at.val - 1)
                      IN  IF prefix = None THEN Panic ELSE prefix

sources_root(mapping) ==
    IF mapping.source_root # None /\ mapping.source_root.val # <<>>
        THEN Ok(mapping.source_root.val)
        ELSE IF Len(mapping.sources) = 0 THEN Panic
        ELSE resolve_relative_path(mapping.sources[1], mapping.file)

----------------------------------------------------------------------------
(* Inputs of sources_root *)

\* the two generated files of works_for_example_paths; files at depth 0, 1
\* and 3; files with a character of two bytes in the file name and in a
\* directory name
BundlePaths ==
    { <<".","/","t","e","s","t","_","f","i","l","e","s","/","q","u","a","s","a","r","-",
      "a","d","m","i","n","/","d","i","s","t","/","s","p","a","/","a","s","s","e","t",
      "s","/","B","a","s","i","c","F","i","l","t","e","r",".","0","9","a","c","8","1",
      "e","1",".","j","s">>,
      <<".","/","t","e","s","t","_","f","i","l","e","s","/","q","u","a","s","a","r","-",
      "a","d","m","i","n","/","d","i","s","t","/","s","p","a","/","a","s","s","e","t",
      "s","/","u","s","e","-","t","i","m","e","o","u","t",".","c","d","c","e","1","0",
      "a","0",".","j","s">>,
      <<"a",".","j","s">>,
      <<"d","i","s","t","/","a",".","j","s">>,
      <<"/","s","r","v","/","a","p","p","/","d","i","s","t","/","a",".","j","s">>,
      <<"d","/","U+00E9",".","j","s">>,
      <<"o","u","t","/","U+00E9","/","b",".","j","s">> }

\* sources of a map: the two of works_for_example_paths, none, one, two and
\* no jump up, one made only of '.' and '/'
SourcesInputs ==
    { <<>>,
      << <<".",".","/">> >>,
      << <<".",".","/",".",".","/",".",".","/","s","r","c","/","c","o","m","p","o","n",
         "e","n","t","s","/","p","a","g","i","n","a","t","i","o","n","s","/","B","a",
         "s","i","c","F","i","l","t","e","r",".","v","u","e">> >>,
      << <<".",".","/",".",".","/",".",".","/","n","o","d","e","_","m","o","d","u","l",
         "e","s","/","q","u","a","s","a","r","/","s","r","c","/","c","o","m","p","o",
         "s","a","b","l","e","s","/","p","r","i","v","a","t","e","/","u","s","e","-",
         "t","i","c","k",".","j","s">> >>,
      << <<".",".","/","s","r","c","/","a",".","j","s">> >>,
      << <<".",".","/",".",".","/","a",".","j","s">> >>,
      << <<"s","r","c","/","a",".","j","s">>,
         <<".",".","/","s","r","c","/","a",".","j","s">> >>,
      << <<".","/","a",".","j","s">> >> }

RootTexts == { <<>>, <<"/","s","r","c">>, <<"l","i","b","/">> }

\* a source map with or without the key sourceRoot, with or without the key
\* source_root, with or without the key file
Keyed(key, texts) == {<<>>} \cup {key :> t : t \in texts}

MapObjects ==
    { (("sources" :> srcs) @@ ("names" :> <<>>) @@ ("mappings" :> <<>>)) @@ f @@ camel @@ snake :
          srcs \in SourcesInputs,
          f \in Keyed("file", {<<"a",".","j","s">>}),
          camel \in Keyed("sourceRoot", RootTexts),
          snake \in Keyed("source_root", RootTexts) }

InitRoot ==
    /\ overflow_checks = FALSE
    /\ base64_str = <<>>
    /\ vlq_out = None
    /\ PipelineIdle
    /\ file_contents = None
    /\ source_file_len = 0
    /\ source_map_len = 0
    /\ rest = None
    /\ map_json \in MapObjects
    /\ parsed_map = None
    /\ root_path = None
    /\ trailer = <<>>
    /\ map_files = <<>>
    /\ path \in BundlePaths
    /\ at_path = FileAtPath
    /\ on_disk = <<>>
    /\ num_threads = 1
    /\ mode = "none"
    /\ batch_pc = "idle"
    /\ analyze_state = None
    /\ BatchFresh

\* parse_file_by_path up to the SourceMapping: the map is deserialized and
\* given the path of the generated file
ParseMap ==
    /\ map_json # <<>>
    /\ parsed_map = None
    /\ parsed_map' = ParsedMapOf(path, map_json)
    /\ UNCHANGED <<input_vars, vlq_vars, pc, source_mapping, calc_vars, file_contents,
                   source_file_len, source_map_len, rest, map_json, root_path, trailer,
                   map_files, batch_vars>>

\* a call of sources_root on the SourceMapping
SourcesRoot ==
    /\ parsed_map.tag = "Ok"
    /\ root_path = None
    /\ root_path' = sources_root(parsed_map.val)
    /\ UNCHANGED <<input_vars, vlq_vars, pc, source_mapping, calc_vars, file_contents,
                   source_file_len, source_map_len, rest, map_json, parsed_map, trailer,
                   map_files, batch_vars>>

NextRoot == ParseMap \/ SourcesRoot

SpecRoot == InitRoot /\ [][NextRoot]_vars

----------------------------------------------------------------------------
(* The contract of sources_root, stated on the texts *)

RootReturned == root_path # None

\* C19: when the JSON of the source map has a non-empty "sourceRoot",
\* sources_root() of the SourceMapping made of it returns that text.
C19_SourceRootVerbatim ==
    (/\ RootReturned
     /\ "sourceRoot" \in DOMAIN map_json
     /\ map_json["sourceRoot"] # <<>>)
    => root_path = Ok(map_json["sourceRoot"])

\* the number of leading "../" of a text
RECURSIVE LeadingJumps(_)
LeadingJumps(str) ==
    IF Len(str) >= 3 /\ SubSeq(str, 1, 3) = <<".", ".", "/">>
        THEN 1 + LeadingJumps(SubSeq(str, 4, Len(str)))
        ELSE 0

Slashes(str) == {i \in DOMAIN str : str[i] = "/"}

\* the text before the k-th '/' from the end
BeforeSlashFromEnd(str, k) ==
    LET at == CHOOSE i \in Slashes(str) : Cardinality({j \in Slashes(str) : j >= i}) = k
    IN  SubSeq(str, 1, at - 1)

NoRootSet == parsed_map.val.source_root \in {None, Ok(<<>>)}

\* C20: when no non-empty source root is set, sources[0] begins with n
\* "../" and the path of the generated file has at least n+1 '/',
\* sources_root() returns the path without its last n+1 components and the
\* '/' before them.
C20_RootInference ==
    (/\ RootReturned
     /\ NoRootSet
     /\ Len(parsed_map.val.sources) > 0
     /\ Cardinality(Slashes(path)) >= LeadingJumps(parsed_map.val.sources[1]) + 1)
    => root_path =
           Ok(BeforeSlashFromEnd(path, LeadingJumps(parsed_map.val.sources[1]) + 1))

\* C30: sources_root() returns a value, without aborting, for every
\* SourceMapping with sources and no source root set, whatever the path of
\* the generated file and whatever sources[0].
C30_RootNeverAborts ==
    (RootReturned /\ NoRootSet /\ Len(parsed_map.val.sources) > 0)
        => root_path.tag = "Ok"

----------------------------------------------------------------------------
(* parse_raw_source_mapping on the text of the last line *)

DirectivePrefix ==
    <<"/","/","#"," ","s","o","u","r","c","e","M","a","p","p","i","n","g","U","R","L",
    "=">>

DataPrefix ==
    <<"d","a","t","a",":","a","p","p","l","i","c","a","t","i","o","n","/","j","s","o",
    "n",";">>

Base64Lookup == <<"b","a","s","e","6","4",",">>

\* str::starts_with
StartsWith(str, start) ==
    Len(str) >= Len(start) /\ SubSeq(str, 1, Len(start)) = start

\* leading and trailing spaces removed, then str::trim_start_matches
TrimStartMatches_Trimmed(str, start) ==
    LET inked == {i \in DOMAIN str : str[i] # " "}
        core == IF inked = {} THEN <<>>
                ELSE SubSeq(str, CHOOSE i \in inked : \A j \in inked : i <= j,
                                 CHOOSE i \in inked : \A j \in inked : j <= i)
        copies == {n \in 0..Len(core) :
                       /\ n * Len(start) <= Len(core)
                       /\ \A k \in 0..(n - 1) :
                              SubSeq(core, k * Len(start) + 1, (k + 1) * Len(start)) = start}
    IN  SubSeq(core, (CHOOSE n \in copies : \A m \in copies : m <= n) * Len(start) + 1,
               Len(core))

\* str::trim_start_matches: every copy of start at the beginning is removed
TrimStartMatches(str, start) ==
    LET copies == {n \in 0..Len(str) :
                       /\ n * Len(start) <= Len(str)
                       /\ \A k \in 0..(n - 1) :
                              SubSeq(str, k * Len(start) + 1, (k + 1) * Len(start)) = start}
    IN  SubSeq(str, (CHOOSE n \in copies : \A m \in copies : m <= n) * Len(start) + 1,
               Len(str))

\* str::find: the index, from 0, of the first occurrence
Find(str, pattern) ==
    LET at == {i \in 0..(Len(str) - Len(pattern)) :
                   SubSeq(str, i + 1, i + Len(pattern)) = pattern}
    IN  IF at = {} THEN None ELSE Ok(CHOOSE i \in at : \A j \in at : i <= j)

\* a source map of one source
GoodMap ==
    ("file" :> <<"a",".","j","s">>) @@ ("sources" :> << <<"s","r","c","/","a",".","j","s">> >>)
        @@ ("names" :> <<>>) @@ ("mappings" :> <<>>)

\* contents of a file: JSON text of an object, or text that is not JSON
JsonText(object) == [json |-> TRUE, object |-> object]
NotJson == [json |-> FALSE, object |-> <<>>]

\* the base64 texts of this model and what they decode to: a source map,
\* the object {}, text that is not JSON
EncodedMaps ==
    (<<"Q","U","J","D">> :> JsonText(GoodMap)) @@ (<<"e","3","0","=">> :> JsonText(<<>>))
        @@ (<<"e","A","=","=">> :> NotJson)

\* general_purpose::STANDARD.decode: any other text, a text with a space
\* or another character outside the alphabet included, is an error
Base64Decode(text) ==
    IF text \in DOMAIN EncodedMaps THEN Ok(EncodedMaps[text]) ELSE Err("base64")

\* Path::parent of the path of a file: what precedes the last '/'
Parent(file) ==
    LET slashes == {i \in DOMAIN file : file[i] = "/"}
    IN  IF slashes = {} THEN <<>>
        ELSE SubSeq(file, 1, (CHOOSE i \in slashes : \A j \in slashes : j <= i) - 1)

\* Path::join: an absolute path replaces the directory
Join(dir, rel) ==
    IF Len(rel) > 0 /\ rel[1] = "/" THEN rel
    ELSE IF Len(dir) = 0 THEN rel
    ELSE IF Len(rel) = 0 THEN dir
    ELSE dir \o <<"/">> \o rel

\* fs::read_to_string
ReadToString(disk, file) ==
    IF file \in DOMAIN disk THEN Ok(disk[file]) ELSE Err("io")

\* serde_json::from_str
FromJson(text) == IF text.json THEN Deserialize(text.object) ELSE Err("source map")

parse_raw_source_mapping(start, line, disk) ==
    LET line_stripped == TrimStartMatches(line, DirectivePrefix)
    IN  IF Len(line_stripped) = Len(line) THEN Err("unsupported format")
        ELSE IF StartsWith(line_stripped, DataPrefix)
            THEN LET index == Find(line, Base64Lookup)
                 IN  IF index = None THEN Err("no base64")
                     ELSE LET decoded ==
                                  Base64Decode(SubSeq(line, index.val + Len(Base64Lookup) + 1,
                                                      Len(line)))
                          IN  IF decoded.tag = "Ok" THEN FromJson(decoded.val) ELSE decoded
            ELSE LET read == ReadToString(disk, Join(Parent(start), line_stripped))
                 IN  IF read.tag = "Ok" THEN FromJson(read.val) ELSE read

\* parse_file_by_path from the last line to raw_source_mapping.file = path
ParsedTrailer(start, line, disk) ==
    LET raw == parse_raw_source_mapping(start, line, disk)
    IN  IF raw.tag = "Ok" THEN Ok([raw.val EXCEPT !.file = start]) ELSE raw

----------------------------------------------------------------------------
(* Inputs of the trailer *)

\* a map next to the generated file in either directory, one at an absolute
\* path, one that is not JSON
DiskWithMaps ==
    (<<"a",".","j","s",".","m","a","p">> :> JsonText(GoodMap))
        @@ (<<"d","i","s","t","/","a",".","j","s",".","m","a","p">> :> JsonText(GoodMap))
        @@ (<<"/","a","b","s","/","a",".","j","s",".","m","a","p">> :> JsonText(GoodMap))
        @@ (<<"b","a","d",".","m","a","p">> :> NotJson)
        @@ (<<"d","i","s","t","/","b","a","d",".","m","a","p">> :> NotJson)

DataUri ==
    <<"d","a","t","a",":","a","p","p","l","i","c","a","t","i","o","n","/","j","s","o",
    "n",";","c","h","a","r","s","e","t","=","u","t","f","-","8",";","b","a","s","e","6",
    "4",",">>

\* what follows the prefix: paths of maps that exist, are missing, are not
\* JSON; data URIs with the three base64 texts, one with a text that is
\* not base64, one without base64; nothing
Targets ==
    { <<"a",".","j","s",".","m","a","p">>, <<"/","a","b","s","/","a",".","j","s",".","m","a","p">>,
      <<"g","o","n","e",".","m","a","p">>, <<"b","a","d",".","m","a","p">>,
      DataUri \o <<"Q","U","J","D">>, DataUri \o <<"e","3","0","=">>,
      DataUri \o <<"e","A","=","=">>, DataUri \o <<"!","!","!","!">>,
      <<"d","a","t","a",":","a","p","p","l","i","c","a","t","i","o","n","/","j","s","o",
      "n",";","c","h","a","r","s","e","t","=","u","t","f","-","8",",","{","}">>,
      <<>> }

Blanks == { <<>>, <<" ">>, <<" ", " ">> }

\* directives with and without spaces around them; lines that are no
\* directive; the prefix twice
TrailerInputs ==
    { before \o DirectivePrefix \o target \o after :
          before \in Blanks, target \in Targets, after \in {<<>>, <<" ">>} }
    \cup
    { <<>>,
      <<"c","o","n","s","o","l","e",".","l","o","g","(","1",")">>,
      <<"/","/"," ","s","o","u","r","c","e","M","a","p","p","i","n","g","U","R","L","=","a",".","j","s",".","m","a","p">>,
      <<"/","*","#"," ","s","o","u","r","c","e","M","a","p","p","i","n","g","U","R","L","=","a",".","j","s",".","m","a","p"," ","*","/">>,
      <<"x">> \o DirectivePrefix \o <<"a",".","j","s",".","m","a","p">>,
      DirectivePrefix \o DirectivePrefix \o <<"a",".","j","s",".","m","a","p">> }

TrailerPaths == { <<"a",".","j","s">>, <<"d","i","s","t","/","a",".","j","s">> }

InitTrailer ==
    /\ overflow_checks = FALSE
    /\ base64_str = <<>>
    /\ vlq_out = None
    /\ PipelineIdle
    /\ file_contents = None
    /\ source_file_len = 0
    /\ source_map_len = 0
    /\ rest = None
    /\ map_json = <<>>
    /\ parsed_map = None
    /\ root_path = None
    /\ trailer \in TrailerInputs
    /\ map_files \in {DiskWithMaps, <<>>}
    /\ path \in TrailerPaths
    /\ at_path = FileAtPath
    /\ on_disk = <<>>
    /\ num_threads = 1
    /\ mode = "none"
    /\ batch_pc = "trailer"
    /\ analyze_state = None
    /\ BatchFresh

\* parse_file_by_path from the last line on
ParseTrailer ==
    /\ batch_pc = "trailer"
    /\ parsed_map = None
    /\ parsed_map' = ParsedTrailer(path, trailer, map_files)
    /\ UNCHANGED <<input_vars, vlq_vars, pc, source_mapping, calc_vars, file_contents,
                   source_file_len, source_map_len, rest, map_json, root_path, trailer,
                   map_files, batch_vars>>

NextTrailer == ParseTrailer

SpecTrailer == InitTrailer /\ [][NextTrailer]_vars

----------------------------------------------------------------------------
(* The trailer convention *)

TrailerParsed == batch_pc = "trailer" /\ parsed_map # None

\* a text without its leading and trailing spaces
Trim(str) ==
    LET inked == {i \in DOMAIN str : str[i] # " "}
    IN  IF inked = {} THEN <<>>
        ELSE SubSeq(str, CHOOSE i \in inked : \A j \in inked : i <= j,
                         CHOOSE i \in inked : \A j \in inked : j <= i)

AfterPrefix == SubSeq(trailer, Len(DirectivePrefix) + 1, Len(trailer))

====
